---- MODULE Spec2Model ----
(***************************************************************************)
(* Poison Game: the two-party session-open handshake, the ledger's session *)
(* record and the per-player game client, as state machines.               *)
(*                                                                         *)
(* SpecOpen  : lobby + PoisonGameService handshake + ledger session-open.  *)
(* SpecPlay  : game component (commit / attack / respond) + ledger turns.  *)
(***************************************************************************)
EXTENDS Integers, Sequences, FiniteSets, TLC

(* ------------------------------------------------------------------ *)
(* Bounds of the model                                                  *)
(* ------------------------------------------------------------------ *)
\* ledger sequence numbers run 0..MaxLedgerSeq
MaxLedgerSeq == 3
\* session ids are drawn from 1..MaxSessionId (the u32 range, scaled)
MaxSessionId == 2
\* an i128 wager is its two 64-bit XDR parts; the low part is in 0..MaxWagerLo
MaxWagerLo == 1
\* validity window of a signed authorization entry, in ledgers
MultiSigTtl == 1
\* players click tiles 0..MaxTile of the opponent's board
MaxTile == 2
\* generateSalt draws from 1..MaxSalt
MaxSalt == 1
\* calls of the ZK engine under way at the same time
MaxCallers == 2
\* periods of the lobby's poll the clock is followed for, and the last period
\* in which a wait may be started
MaxPeriods == 202
MaxStartPeriod == 1
\* reads of crypto.getRandomValues one call of createRandomSessionId may make
MaxDraws == 2

(* ------------------------------------------------------------------ *)
(* Program constants                                                    *)
(* ------------------------------------------------------------------ *)
\* handleJoinOrLoad waits for the session with at most 8 getGame reads
JoinPollAttempts == 8
\* handleQuickStart waits for the session with at most 10 getGame reads
QuickstartPollAttempts == 10
\* commitBoard reads the transaction status at most 10 times
CommitPollAttempts == 10
\* a board has 15 tiles
NumTiles == 15
\* a board commitment has 32 bytes
HashBytes == 32
\* an UltraHonk proof blob has 14592 bytes
ProofBytes == 14592
\* period of the lobby's poll for the session, and the overall timeout of the
\* second lobby's wait, in milliseconds
PollIntervalMs == 3000
PollTimeoutMs == 600000

VARIABLES
    ledgerSeq,   \* latest ledger sequence number of the network
    games,       \* ledger: session id -> GameState record (exists = FALSE: none)
    openedVia,   \* ledger history: session id -> service method whose submission created it
    artifact,    \* the handshake artifact the initiator last shared (signed auth entry)
    intent,      \* session id -> what the initiator asked prepareStartGame for
    creator,     \* initiator's lobby
    joiner,      \* responder's lobby
    openNet,     \* session-open transactions sent to the network and not yet applied
    openStatus,  \* getTransaction status of the responder's submission
    lastCall,    \* per lobby, the service call in progress or completed last
    variant,     \* which build of the lobby and game components is mounted
    ui,          \* per browser (1 = initiator's, 2 = responder's): game component state
    gameNet,     \* commit / attack / respond transactions sent and not yet applied
    gameStatus,  \* per browser and method: status of the transaction its call awaits
    store,       \* per browser: localStorage, session id -> BoardSecret
    editor,      \* responder's browser: the board editor of the commit phase
    zk,          \* the ZkProofEngine singleton of the responder's browser and the calls made on it
    timers,      \* clock and timers of the initiator's lobby
    picked,      \* the session id being chosen for an initiation, as a 32-bit value
    read         \* the last getGame call: its input and what it returned

\* everything of the lobby and handshake except the ledger's sessions
lobbyVars == <<ledgerSeq, openedVia, artifact, intent, creator, joiner,
               openNet, openStatus, lastCall, variant, read, picked, timers, zk, editor>>

vars == <<ledgerSeq, games, openedVia, artifact, intent, creator, joiner,
          openNet, openStatus, lastCall, variant, read, picked, timers, zk, editor, ui, gameNet, gameStatus, store>>

(* ------------------------------------------------------------------ *)
(* Values                                                               *)
(* ------------------------------------------------------------------ *)
Addresses == {"GA", "GB"}
\* getFundedSimulationSourceAddress: a funded account that is not the creator
Placeholder == "GSIM"
SessionIds == 1..MaxSessionId
\* hi = 0: the amount fits in 64 bits; hi = 1: it does not
I128 == [hi : {0, 1}, lo : 0..MaxWagerLo]
Zero128 == [hi |-> 0, lo |-> 0]
\* parsePoints accepts only amounts > 0
Wagers == {w \in I128 : w.hi > 0 \/ w.lo > 0}

WaitingForCommits == 0
Playing == 1
Finished == 2

\* a board commitment: the hash of (tiles, salt), kept as the pair it binds
NoHash == [tiles |-> <<>>, salt |-> 0, bytes |-> 0]
NoEntry == [exists |-> FALSE, address |-> "", session_id |-> 0, points |-> Zero128,
            expiration |-> 0, signed |-> FALSE]
NoTx == [exists |-> FALSE, session_id |-> 0, player1 |-> "", player2 |-> "",
         player1_points |-> Zero128, player2_points |-> Zero128, source |-> "",
         auth |-> {}, via |-> "", by |-> ""]
NoGame == [exists |-> FALSE, phase |-> WaitingForCommits, player1 |-> "", player2 |-> "",
           player1_points |-> Zero128, player2_points |-> Zero128,
           player1_committed |-> FALSE, player2_committed |-> FALSE,
           player1_commitment |-> NoHash, player2_commitment |-> NoHash,
           current_turn |-> 1, has_pending_attack |-> FALSE, pending_attack_tile |-> 0,
           p1_revealed |-> <<>>, p2_revealed |-> <<>>, winner |-> 0]
NoCall == [name |-> "", done |-> TRUE, ok |-> TRUE, err |-> "", net |-> 0, sub |-> 0,
           self |-> FALSE, expired |-> FALSE, fresh |-> FALSE, entries |-> <<>>]
\* an unsigned 32-bit value as two 16-bit halves: hi * HalfWord + lo
HalfWord == 65536
U32(hi, lo) == [hi |-> hi, lo |-> lo]
\* no session id has been chosen
NoPick == [site |-> "", pc |-> "idle", crypto |-> FALSE, draws |-> 0, value |-> U32(0, 0)]
\* no getGame call has been made
NoRead == [called |-> FALSE, sid |-> 0, rpc |-> "", raised |-> FALSE, value |-> NoGame]
\* no interval set (pollRef.current = null)
NoInterval == [sid |-> 0, start |-> -1]
\* the lobby as mounted: the clock at 0, no interval, no timeout armed, no
\* error shown, no getGame of a callback awaited, onGameReady not called
NoTimers == [now |-> 0, mounted |-> TRUE, pollRef |-> NoInterval, live |-> {},
             timeouts |-> {}, error |-> "", inflight |-> {}, ready |-> <<>>]
NoIntent == [exists |-> FALSE, player1 |-> "", w1 |-> Zero128]
NoStatus == [status |-> "NONE", reason |-> "", session_id |-> 0]
NoErr == [kind |-> "", reason |-> ""]
\* the board editor as the game component mounts it: Array(15).fill(0), and
\* the Poison tool selected
NoEditor == [myBoard |-> [i \in 1..NumTiles |-> 0], activeTool |-> 1]

\* what a call of generateTileProof ends with: the proof it returns (ok), or
\* the error it throws; executed tells whether noir.execute was reached
NoProof == [ok |-> FALSE, err |-> "", executed |-> FALSE, bytes |-> 0,
            commitment |-> NoHash, tile_index |-> 0, tile_type |-> 0]
ProofThrown(err, executed) == [NoProof EXCEPT !.err = err, !.executed = executed]

\* calls of the ZK engine that may be under way at the same time: the
\* generateTileProof of handleRespondToAttack (one at a time, under runAction)
\* and calls of computeBoardHash
Callers == 1..MaxCallers
Prover == 1
\* the arguments of the last call of generateTileProof
NoCallArgs == [made |-> FALSE, tiles |-> <<>>, tileIndex |-> 0, tileType |-> 0]
\* what a call of a service method ended with: the length of the artifact it
\* was given, its error, and whether a transaction was sent
NoOutcome == [called |-> FALSE, bytes |-> 0, err |-> "", reason |-> "", sent |-> FALSE]
\* the engine singleton as constructed (_initialized = false, _initializing =
\* null, _error = null), no _doInit run so far, no call under way
NoZk == [initialized |-> FALSE, initializing |-> "null", error |-> "", runs |-> 0,
         callers |-> [k \in Callers |-> "idle"],
         call |-> NoCallArgs, proof |-> NoProof, respond |-> NoOutcome, commit |-> NoOutcome]

\* outcome of a service call: value or error, the number of network calls it
\* made and the transactions it submitted
Ok(v, n) == [ok |-> TRUE, err |-> "", value |-> v, net |-> n, sent |-> {}]
Fail(e, v, n) == [ok |-> FALSE, err |-> e, value |-> v, net |-> n, sent |-> {}]

(* ------------------------------------------------------------------ *)
(* Ledger contract: start_game                                          *)
(* ------------------------------------------------------------------ *)
\* require_auth_for_args(addr, [session_id, points]): addr is the transaction
\* source, or the transaction carries addr's signed, unexpired entry for
\* exactly these arguments
Authorized(tx, addr, pts, seq) ==
    \/ tx.source = addr
    \/ \E e \in tx.auth :
          /\ e.address = addr
          /\ e.signed
          /\ e.session_id = tx.session_id
          /\ e.points = pts
          /\ e.expiration >= seq

\* outcome of start_game on the ledger state gs at ledger seq: "" accepts
StartGameCheck(tx, seq, gs) ==
    IF tx.player1 = tx.player2 THEN "SelfPlay"
    ELSE IF gs[tx.session_id].exists THEN "AlreadyExists"
    ELSE IF ~Authorized(tx, tx.player1, tx.player1_points, seq) THEN "AuthorizationFailed"
    ELSE IF ~Authorized(tx, tx.player2, tx.player2_points, seq) THEN "AuthorizationFailed"
    ELSE ""

\* the session record start_game stores
NewGame(tx) ==
    [NoGame EXCEPT !.exists = TRUE, !.phase = WaitingForCommits,
                   !.player1 = tx.player1, !.player2 = tx.player2,
                   !.player1_points = tx.player1_points,
                   !.player2_points = tx.player2_points]

\* recording-mode simulation of start_game: the authorization entries the
\* call needs from parties other than the transaction source, unsigned
SimulateStartGame(tx, gs) ==
    LET err == IF tx.player1 = tx.player2 THEN "SelfPlay"
               ELSE IF gs[tx.session_id].exists THEN "AlreadyExists"
               ELSE ""
        stub(a, p) == [exists |-> TRUE, address |-> a, session_id |-> tx.session_id,
                       points |-> p, expiration |-> 0, signed |-> FALSE]
    IN  [err |-> err,
         auth |-> IF err # "" THEN {}
                  ELSE (IF tx.source = tx.player1 THEN {}
                        ELSE {stub(tx.player1, tx.player1_points)})
                       \cup
                       (IF tx.source = tx.player2 THEN {}
                        ELSE {stub(tx.player2, tx.player2_points)})]

\* calculateValidUntilLedger: latest ledger plus the time-to-live in ledgers
calculateValidUntilLedger(seq, ttl) == seq + ttl

StartGameTx(sid, p1, p2, w1, w2, src) ==
    [exists |-> TRUE, session_id |-> sid, player1 |-> p1, player2 |-> p2,
     player1_points |-> w1, player2_points |-> w2, source |-> src,
     auth |-> {}, via |-> "", by |-> ""]

(* ------------------------------------------------------------------ *)
(* Ledger contract: commit_board, attack, respond_to_attack             *)
(* ------------------------------------------------------------------ *)
PlayerNum(g, addr) ==
    IF addr = g.player1 THEN 1 ELSE IF addr = g.player2 THEN 2 ELSE 0

\* revealed tiles of player n's own board
RevealedOf(g, n) == IF n = 1 THEN g.p1_revealed ELSE g.p2_revealed

RevealedIndexes(revealed) == {revealed[i].tile_index : i \in 1..Len(revealed)}

CountType(revealed, t) == Cardinality({i \in 1..Len(revealed) : revealed[i].tile_type = t})

\* commit: fails with AlreadyCommitted when the session already shows this
\* player committed, and with WrongPhase outside WaitingForCommits
CommitCheck(g, player) ==
    IF ~g.exists THEN "GameNotFound"
    ELSE IF PlayerNum(g, player) = 0 THEN "NotPlayer"
    ELSE IF (PlayerNum(g, player) = 1 /\ g.player1_committed)
            \/ (PlayerNum(g, player) = 2 /\ g.player2_committed) THEN "AlreadyCommitted"
    ELSE IF g.phase # WaitingForCommits THEN "WrongPhase"
    ELSE ""

\* once both players have committed the phase moves to Playing
CommitApply(g, player, hash) ==
    LET g1 == IF PlayerNum(g, player) = 1
              THEN [g EXCEPT !.player1_committed = TRUE, !.player1_commitment = hash]
              ELSE [g EXCEPT !.player2_committed = TRUE, !.player2_commitment = hash]
    IN  IF g1.player1_committed /\ g1.player2_committed
        THEN [g1 EXCEPT !.phase = Playing]
        ELSE g1

\* variant: a ledger that accepts an attack on a tile already revealed
AttackCheck_reattack(g, attacker, tile) ==
    IF ~g.exists THEN "GameNotFound"
    ELSE IF PlayerNum(g, attacker) = 0 THEN "NotPlayer"
    ELSE IF g.phase # Playing THEN "WrongPhase"
    ELSE IF g.has_pending_attack \/ g.current_turn # PlayerNum(g, attacker) THEN "NotYourTurn"
    ELSE IF tile < 0 \/ tile > 14 THEN "InvalidTileIndex"
    ELSE ""

\* attack: fails with NotYourTurn, InvalidTileIndex, TileAlreadyRevealed, WrongPhase
AttackCheck(g, attacker, tile) ==
    IF ~g.exists THEN "GameNotFound"
    ELSE IF PlayerNum(g, attacker) = 0 THEN "NotPlayer"
    ELSE IF g.phase # Playing THEN "WrongPhase"
    ELSE IF g.has_pending_attack \/ g.current_turn # PlayerNum(g, attacker) THEN "NotYourTurn"
    ELSE IF tile < 0 \/ tile > 14 THEN "InvalidTileIndex"
    ELSE IF tile \in RevealedIndexes(RevealedOf(g, 3 - PlayerNum(g, attacker)))
         THEN "TileAlreadyRevealed"
    ELSE ""

\* variant: the turn passes to the defender as soon as the attack is accepted
AttackApply_passTurn(g, tile) ==
    [g EXCEPT !.has_pending_attack = TRUE, !.pending_attack_tile = tile,
              !.current_turn = 3 - g.current_turn]

AttackApply(g, tile) ==
    [g EXCEPT !.has_pending_attack = TRUE, !.pending_attack_tile = tile]

\* the proof blob has exactly ProofBytes bytes and is checked against (stored
\* commitment, pending tile, claimed type)
VerifyProof(g, defender, tileType, proof) ==
    /\ proof.bytes = ProofBytes
    /\ proof.commitment = (IF PlayerNum(g, defender) = 1 THEN g.player1_commitment
                                                         ELSE g.player2_commitment)
    /\ proof.tile_index = g.pending_attack_tile
    /\ proof.tile_type = tileType

\* variant: the proof is not looked at
RespondCheck_noVerify(g, defender, tileType, proof) ==
    IF ~g.exists THEN "GameNotFound"
    ELSE IF PlayerNum(g, defender) = 0 THEN "NotPlayer"
    ELSE IF g.phase # Playing THEN "WrongPhase"
    ELSE IF ~g.has_pending_attack \/ g.current_turn = PlayerNum(g, defender) THEN "NotYourTurn"
    ELSE ""

\* respond: fails with InvalidProof, NotYourTurn, WrongPhase
RespondCheck(g, defender, tileType, proof) ==
    IF ~g.exists THEN "GameNotFound"
    ELSE IF PlayerNum(g, defender) = 0 THEN "NotPlayer"
    ELSE IF g.phase # Playing THEN "WrongPhase"
    ELSE IF ~g.has_pending_attack \/ g.current_turn = PlayerNum(g, defender) THEN "NotYourTurn"
    ELSE IF ~VerifyProof(g, defender, tileType, proof) THEN "InvalidProof"
    ELSE ""

\* variant: a ledger that opens the session for new commitments once it is won
RespondApply_rematch(g, defender, tileType) ==
    LET d == PlayerNum(g, defender)
        rt == [tile_index |-> g.pending_attack_tile, tile_type |-> tileType]
        g1 == IF d = 1 THEN [g EXCEPT !.p1_revealed = Append(@, rt)]
                       ELSE [g EXCEPT !.p2_revealed = Append(@, rt)]
        g2 == [g1 EXCEPT !.has_pending_attack = FALSE, !.current_turn = 3 - g.current_turn]
    IN  IF CountType(RevealedOf(g2, d), 1) = 2 /\ CountType(RevealedOf(g2, d), 2) = 1
        THEN [g2 EXCEPT !.phase = WaitingForCommits, !.winner = g.current_turn]
        ELSE g2

\* a ledger that ends the session on the third revealed tile of a board,
\* whatever the tiles are
RespondApply_anyThree(g, defender, tileType) ==
    LET d == PlayerNum(g, defender)
        rt == [tile_index |-> g.pending_attack_tile, tile_type |-> tileType]
        g1 == IF d = 1 THEN [g EXCEPT !.p1_revealed = Append(@, rt)]
                       ELSE [g EXCEPT !.p2_revealed = Append(@, rt)]
        g2 == [g1 EXCEPT !.has_pending_attack = FALSE, !.current_turn = 3 - g.current_turn]
    IN  IF Len(RevealedOf(g2, d)) = 3
        THEN [g2 EXCEPT !.phase = Finished, !.winner = g.current_turn]
        ELSE g2

\* the tile is appended to the defender's revealed list, the pending attack
\* is cleared and the turn passes to the other player; the attacker who has
\* uncovered 2 Poison and 1 Shield on the defender's board wins
RespondApply(g, defender, tileType) ==
    LET d == PlayerNum(g, defender)
        rt == [tile_index |-> g.pending_attack_tile, tile_type |-> tileType]
        g1 == IF d = 1 THEN [g EXCEPT !.p1_revealed = Append(@, rt)]
                       ELSE [g EXCEPT !.p2_revealed = Append(@, rt)]
        g2 == [g1 EXCEPT !.has_pending_attack = FALSE, !.current_turn = 3 - g.current_turn]
    IN  IF CountType(RevealedOf(g2, d), 1) = 2 /\ CountType(RevealedOf(g2, d), 2) = 1
        THEN [g2 EXCEPT !.phase = Finished, !.winner = g.current_turn]
        ELSE g2

(* ------------------------------------------------------------------ *)
(* PoisonGameService: the handshake                                     *)
(* ------------------------------------------------------------------ *)
\* an entry whose credentials are the transaction source's own: reading its
\* address throws, and the selection loop skips it
SourceEntry == [NoEntry EXCEPT !.exists = TRUE]
AddressBased(e) == e.address # ""

\* every arrangement of a finite set as an array
Orderings(S) ==
    {f \in [1..Cardinality(S) -> S] : \A i, j \in 1..Cardinality(S) : f[i] = f[j] => i = j}

\* simulationData.result.auth: the entries of the simulation in any order; the
\* requirement of the transaction source is absent, carried by an entry with
\* source credentials, or carried by an address entry
SimulatedAuthEntries(tx, sim) ==
    LET src == [exists |-> TRUE, address |-> tx.source, session_id |-> tx.session_id,
                points |-> tx.player2_points, expiration |-> 0, signed |-> FALSE]
    IN  IF sim.err # "" THEN {<<>>}
        ELSE Orderings(sim.auth) \cup Orderings(sim.auth \cup {SourceEntry})
             \cup Orderings(sim.auth \cup {src})

\* a selection by position: the first entry of the array
findPlayer1AuthEntry_first(authEntries, player1) ==
    IF Len(authEntries) = 0 THEN NoEntry ELSE authEntries[1]

\* the loop over authEntries: the first entry that is address-based and whose
\* address equals player1; entries that are not address-based are skipped
findPlayer1AuthEntry(authEntries, player1) ==
    LET hits == {i \in 1..Len(authEntries) :
                    AddressBased(authEntries[i]) /\ authEntries[i].address = player1}
    IN  IF hits = {} THEN NoEntry
        ELSE authEntries[CHOOSE i \in hits : \A j \in hits : i <= j]

\* prepareStartGame once the simulation has returned authEntries: pick
\* player1's authorization entry, sign it with a validity window; the signed
\* entry is the artifact.  Network calls: simulation, latest ledger.
prepareStartGame_signed(sim, authEntries, player1, seq) ==
    LET e == findPlayer1AuthEntry(authEntries, player1)
    IN  IF sim.err # "" THEN Fail("NoAuthorizationFound", NoEntry, 1)
        ELSE IF ~e.exists THEN Fail("NoAuthorizationFound", NoEntry, 1)
        ELSE Ok([e EXCEPT !.signed = TRUE,
                          !.expiration = calculateValidUntilLedger(seq, MultiSigTtl)], 2)

\* prepareStartGame: simulate from player2's perspective, then select and
\* sign; the array is one of those the simulation may return
prepareStartGame(sessionId, player1, player2, player1Points, player2Points, seq, gs) ==
    LET tx == StartGameTx(sessionId, player1, player2, player1Points, player2Points, player2)
        sim == SimulateStartGame(tx, gs)
    IN  prepareStartGame_signed(sim, CHOOSE a \in SimulatedAuthEntries(tx, sim) : TRUE,
                                player1, seq)

\* parseAuthEntry: address from the credentials; session id = args[0].u32();
\* player1Points = args[1].i128().lo().toBigInt(), the low 64 bits only
parseAuthEntry(entry) ==
    [sessionId |-> entry.session_id,
     player1 |-> entry.address,
     player1Points |-> [hi |-> 0, lo |-> entry.points.lo]]

\* variant: the merge does not look at the validity window
injectSignedAuthEntry_noExpiry(tx, stubs, signedEntry, seq) ==
    [err |-> "",
     tx |-> [tx EXCEPT !.auth = {e \in stubs : e.address # signedEntry.address}
                                \cup {signedEntry}]]

\* injectSignedAuthEntry: the merge.  It fails with HandshakeExpired when the
\* signed entry's validity window has lapsed; otherwise the signed entry
\* takes the place of the stub the simulation produced for the same address
injectSignedAuthEntry(tx, stubs, signedEntry, seq) ==
    IF signedEntry.expiration < seq
    THEN [err |-> "HandshakeExpired", tx |-> NoTx]
    ELSE [err |-> "",
          tx |-> [tx EXCEPT !.auth = {e \in stubs : e.address # signedEntry.address}
                                     \cup {signedEntry}]]

\* signAndSendViaLaunchtube: simulate, sign, send once.  chk is the outcome
\* of the simulation; a transaction whose simulation fails is not sent
signAndSendViaLaunchtube(tx, chk) ==
    IF chk # "" THEN [err |-> "SimulationFailed", reason |-> chk, sent |-> {}]
    ELSE [err |-> "", reason |-> "", sent |-> {tx}]

\* variant: the rebuilt call carries the parsed player-1 wager on both sides
importAndSignAuthEntry_sameWager(player1SignedAuthEntry, player2Address, player2Points, seq, gs) ==
    LET gameParams == parseAuthEntry(player1SignedAuthEntry)
        tx == StartGameTx(gameParams.sessionId, gameParams.player1, player2Address,
                          gameParams.player1Points, gameParams.player1Points, player2Address)
        sim == SimulateStartGame(tx, gs)
        merged == injectSignedAuthEntry(tx, sim.auth, player1SignedAuthEntry, seq)
    IN  IF player2Address = gameParams.player1 THEN Fail("SelfPlay", NoTx, 0)
        ELSE IF sim.err # "" THEN Fail("SimulationFailed", NoTx, 2)
        ELSE IF merged.err # "" THEN Fail(merged.err, NoTx, 3)
        ELSE Ok(merged.tx, 3)

\* variant: self-play is left for the simulation to discover
importAndSignAuthEntry_checkLate(player1SignedAuthEntry, player2Address, player2Points, seq, gs) ==
    LET gameParams == parseAuthEntry(player1SignedAuthEntry)
        tx == StartGameTx(gameParams.sessionId, gameParams.player1, player2Address,
                          gameParams.player1Points, player2Points, player2Address)
        sim == SimulateStartGame(tx, gs)
        merged == injectSignedAuthEntry(tx, sim.auth, player1SignedAuthEntry, seq)
    IN  IF sim.err # "" THEN Fail("SimulationFailed", NoTx, 2)
        ELSE IF merged.err # "" THEN Fail(merged.err, NoTx, 3)
        ELSE Ok(merged.tx, 3)

\* variant: the call also sends the merged transaction
importAndSignAuthEntry_sending(player1SignedAuthEntry, player2Address, player2Points, seq, gs) ==
    LET gameParams == parseAuthEntry(player1SignedAuthEntry)
        tx == StartGameTx(gameParams.sessionId, gameParams.player1, player2Address,
                          gameParams.player1Points, player2Points, player2Address)
        sim == SimulateStartGame(tx, gs)
        merged == injectSignedAuthEntry(tx, sim.auth, player1SignedAuthEntry, seq)
    IN  IF player2Address = gameParams.player1 THEN Fail("SelfPlay", NoTx, 0)
        ELSE IF sim.err # "" THEN Fail("SimulationFailed", NoTx, 2)
        ELSE IF merged.err # "" THEN Fail(merged.err, NoTx, 3)
        ELSE [Ok(merged.tx, 4) EXCEPT !.sent = {[merged.tx EXCEPT !.via = "importAndSignAuthEntry"]}]

\* importAndSignAuthEntry: parse, refuse self-play, rebuild the same
\* start_game call with player 2 as source, merge player 1's signed entry
importAndSignAuthEntry(player1SignedAuthEntry, player2Address, player2Points, seq, gs) ==
    LET gameParams == parseAuthEntry(player1SignedAuthEntry)
        tx == StartGameTx(gameParams.sessionId, gameParams.player1, player2Address,
                          gameParams.player1Points, player2Points, player2Address)
        sim == SimulateStartGame(tx, gs)
        merged == injectSignedAuthEntry(tx, sim.auth, player1SignedAuthEntry, seq)
    IN  IF player2Address = gameParams.player1 THEN Fail("SelfPlay", NoTx, 0)
        ELSE IF sim.err # "" THEN Fail("SimulationFailed", NoTx, 2)
        ELSE IF merged.err # "" THEN Fail(merged.err, NoTx, 3)
        ELSE Ok(merged.tx, 3)

(* ------------------------------------------------------------------ *)
(* Browser state                                                        *)
(* ------------------------------------------------------------------ *)
\* two builds of the front end: GameLobby.tsx with PoisonGameGame.tsx, and
\* the second lobby with the second game component
LobbyVariants == {"GameLobby", "PoisonGameLobby"}

Browsers == {1, 2}
\* the wallet connected in each browser's game component
BrowserAddr(c) == IF c = 1 THEN "GA" ELSE "GB"

NoSecret == [exists |-> FALSE, tiles |-> <<>>, salt |-> 0, commitment |-> NoHash]

\* useState initial values of the game component
InitUi(v) ==
    [screen |-> "lobby", sessionId |-> 0, myPlayerNum |-> 0,
     gamePhase |-> IF v = "GameLobby" THEN "create" ELSE "commit",
     gameState |-> NoGame, boardCommitted |-> FALSE, isCommitting |-> FALSE,
     isResponding |-> FALSE, loading |-> FALSE, quickstartLoading |-> FALSE,
     actionLock |-> FALSE, selectedAttackTile |-> -1, boardData |-> NoSecret,
     commitPc |-> "idle", commitPolls |-> 0, attackPc |-> "idle", respondPc |-> "idle",
     qsPc |-> "idle", qsPolls |-> 0, err |-> ""]

loadBoard(st, c, sid) == IF sid \in SessionIds THEN st[c][sid] ELSE NoSecret

\* handleGameReady: PoisonGameGame.tsx keeps the session id and shows the game
\* screen; the second component also locks address and player number, and its
\* currentBoardData memo is recomputed from localStorage as its inputs change
handleGameReady(v, st, u, c, sid, playerNum) ==
    IF v = "GameLobby"
    THEN [u EXCEPT !.sessionId = sid, !.screen = "game"]
    ELSE [u EXCEPT !.sessionId = sid, !.screen = "game", !.myPlayerNum = playerNum,
                   !.err = "", !.boardData = loadBoard(st, c, sid)]

(* ------------------------------------------------------------------ *)
(* The lobby and the network: session-open handshake                    *)
(* ------------------------------------------------------------------ *)
\* the wallet connected in the initiator's browser
InitiatorWallet == "GA"
\* FIXED_WAGER of GameLobby.tsx and the default points of the quickstart
FixedWager == [hi |-> 0, lo |-> 1]
NoCreator == [pc |-> "idle", addr |-> InitiatorWallet, sid |-> 0]
NoJoiner == [pc |-> "idle", addr |-> "", w2 |-> Zero128, xdr |-> NoEntry, tx |-> NoTx,
             sid |-> 0, polls |-> 0, err |-> NoErr, readySid |-> 0]
GameMethods == {"commit_board", "attack", "respond_to_attack"}

InitOpen ==
    /\ ledgerSeq = 0
    /\ games = [s \in SessionIds |-> NoGame]
    /\ openedVia = [s \in SessionIds |-> ""]
    /\ artifact = NoEntry
    /\ intent = [s \in SessionIds |-> NoIntent]
    /\ creator = NoCreator
    /\ joiner = NoJoiner
    /\ openNet = {}
    /\ openStatus = [join |-> NoStatus, quick |-> NoStatus]
    /\ lastCall = [creator |-> NoCall, joiner |-> NoCall, quick |-> NoCall]
    /\ variant \in LobbyVariants
    /\ ui = [c \in Browsers |-> InitUi(variant)]
    /\ gameNet = {}
    /\ gameStatus = [c \in Browsers |-> [k \in GameMethods |-> NoStatus]]
    /\ store = [c \in Browsers |-> [s \in SessionIds |-> NoSecret]]
    /\ read = NoRead
    /\ picked = NoPick
    /\ timers = NoTimers
    /\ zk = NoZk
    /\ editor = NoEditor

\* a ledger closes
Tick ==
    /\ ledgerSeq < MaxLedgerSeq
    /\ ledgerSeq' = ledgerSeq + 1
    /\ UNCHANGED <<games, openedVia, artifact, intent, creator, joiner, openNet,
                   openStatus, lastCall, variant, read, picked, timers, zk, editor, ui, gameNet, gameStatus, store>>

\* whether the build arms an overall timeout when it starts to wait
waitTimeoutArmed(v) == v = "PoisonGameLobby"

\* startPolling (second lobby): clear the interval pollRef holds, set a new
\* one, and arm a timeout of 10 minutes that nothing cancels.
\* startPollingForGame (GameLobby): set a new interval; no timeout.
startPolling(v, t, sid) ==
    LET iv == [sid |-> sid, start |-> t.now]
    IN  [t EXCEPT !.pollRef = iv,
                  !.live = (IF v = "GameLobby" THEN @ ELSE @ \ {t.pollRef}) \cup {iv},
                  !.timeouts = IF waitTimeoutArmed(v) THEN @ \cup {t.now + PollTimeoutMs} ELSE @,
                  !.error = ""]

\* handleCreateGame / handleCreate: a fresh random session id, then
\* prepareStartGame with the same wager for both sides; the artifact is shown
\* for sharing and the lobby starts polling for the session.  GameLobby passes
\* the typed opponent address and FIXED_WAGER, the other lobby a funded
\* placeholder account and the typed amount.
handleCreateGame(sid, w, opp, authEntries) ==
    LET a == creator.addr
        p2 == IF variant = "GameLobby" THEN opp ELSE Placeholder
        tx == StartGameTx(sid, a, p2, w, w, p2)
        sim == SimulateStartGame(tx, games)
        r == prepareStartGame_signed(sim, authEntries, a, ledgerSeq)
    IN  /\ authEntries \in SimulatedAuthEntries(tx, sim)
        /\ creator.pc \in {"idle", "error"}
        /\ ui[1].screen = "lobby"
        /\ ~intent[sid].exists
        /\ variant = "GameLobby" => w = FixedWager
        /\ variant = "PoisonGameLobby" => opp = Placeholder
        /\ artifact' = IF r.ok THEN r.value ELSE artifact
        /\ openNet' = openNet \cup r.sent
        /\ intent' = IF r.ok THEN [intent EXCEPT ![sid] = [exists |-> TRUE, player1 |-> a, w1 |-> w]]
                     ELSE intent
        /\ creator' = [pc |-> IF r.ok THEN "waiting" ELSE "error", addr |-> a, sid |-> sid]
        /\ lastCall' = [lastCall EXCEPT !.creator =
                          [name |-> "prepareStartGame", done |-> TRUE, ok |-> r.ok,
                           err |-> r.err, net |-> r.net, sub |-> Cardinality(r.sent),
                           self |-> (a = p2), expired |-> FALSE,
                           fresh |-> ~games[sid].exists,
                           entries |-> authEntries]]
        /\ timers' = IF r.ok THEN startPolling(variant, timers, sid)
                     ELSE [timers EXCEPT !.error = ""]
        /\ UNCHANGED <<ledgerSeq, games, openedVia, joiner, openStatus, variant, read, picked, zk, editor,
                       ui, gameNet, gameStatus, store>>

\* the handler where the simulation returns its entries in one arrangement
handleCreate(sid, w, opp) ==
    LET p2 == IF variant = "GameLobby" THEN opp ELSE Placeholder
        tx == StartGameTx(sid, creator.addr, p2, w, w, p2)
        sim == SimulateStartGame(tx, games)
    IN  handleCreateGame(sid, w, opp, CHOOSE a \in SimulatedAuthEntries(tx, sim) : TRUE)

\* get_game as simulated: the stored session, or the contract's error for
\* a session id that is not stored
SimulateGetGame(sid, gs) ==
    IF sid \in SessionIds /\ gs[sid].exists
    THEN [isOk |-> TRUE, value |-> gs[sid]]
    ELSE [isOk |-> FALSE, value |-> NoGame]

\* a read without the try block and without the isOk test: a failed request
\* and the unwrap of an error both raise
getGame_uncaught(sid, rpc, gs) ==
    LET result == SimulateGetGame(sid, gs)
    IN  [raised |-> rpc = "throws" \/ ~result.isOk, value |-> result.value]

\* getGame: build get_game, simulate it, return the unwrapped session when
\* the result is Ok and null otherwise; anything thrown is caught and null is
\* returned.  rpc = "throws": the request or the simulation fails.
getGame_call(sid, rpc, gs) ==
    LET result == SimulateGetGame(sid, gs)
    IN  IF rpc = "throws" THEN [raised |-> FALSE, value |-> NoGame]
        ELSE IF result.isOk THEN [raised |-> FALSE, value |-> result.value]
        ELSE [raised |-> FALSE, value |-> NoGame]

\* getGame: the session as read from the ledger; a failed read yields null
getGame(sid, readOk) == getGame_call(sid, IF readOk THEN "ok" ELSE "throws", games).value

\* startPollingForGame / startPolling: the callback of the initiator's
\* interval runs, `elapsed` ms after the clock's last reading; when the session
\* is visible the interval is cleared, pollRef is set to null and onGameReady
\* runs, which takes the lobby off the screen
creatorPollAfter(readOk, elapsed) ==
    LET game == getGame(creator.sid, readOk)
        t == [timers EXCEPT !.now = @ + elapsed]
    IN  /\ creator.pc = "waiting"
        /\ ui[1].screen = "lobby"
        /\ timers.pollRef \in timers.live
        /\ IF game.exists
           THEN /\ creator' = [creator EXCEPT !.pc = "ready"]
                /\ ui' = [ui EXCEPT ![1] = handleGameReady(variant, store, ui[1], 1, creator.sid, 1)]
                /\ timers' = [t EXCEPT !.live = @ \ {timers.pollRef}, !.pollRef = NoInterval,
                                       !.mounted = FALSE]
           ELSE /\ timers' = t
                /\ UNCHANGED <<creator, ui>>
        /\ UNCHANGED <<ledgerSeq, games, openedVia, artifact, intent, joiner, openNet,
                       openStatus, lastCall, variant, read, picked, zk, editor, gameNet, gameStatus, store>>

\* a run of the callback where the clock is not followed
creatorPoll(readOk) == creatorPollAfter(readOk, 0)

\* handleJoinGame / handleJoinOrLoad up to the return of importAndSignAuthEntry.
\* The second lobby refuses an artifact made by the connected wallet before it
\* calls the service, and takes the session id from the artifact; GameLobby
\* takes the typed session id and FIXED_WAGER.
handleJoin(a, w2, sidInput) ==
    LET parsed == parseAuthEntry(artifact)
        own == variant = "PoisonGameLobby" /\ a = parsed.player1
        r == importAndSignAuthEntry(artifact, a, w2, ledgerSeq, games)
        sid == IF variant = "GameLobby" THEN sidInput ELSE parsed.sessionId
    IN  /\ joiner.pc \in {"idle", "error"}
        /\ ui[2].screen = "lobby"
        /\ artifact.exists
        /\ variant = "GameLobby" => w2 = FixedWager
        /\ variant = "PoisonGameLobby" => sidInput = parsed.sessionId
        /\ joiner' = IF own
                     THEN [joiner EXCEPT !.pc = "error",
                                         !.err = [kind |-> "OwnAuthEntry", reason |-> ""]]
                     ELSE IF r.ok
                     THEN [NoJoiner EXCEPT !.pc = "imported", !.addr = a, !.w2 = w2,
                                           !.xdr = artifact, !.tx = r.value, !.sid = sid]
                     ELSE [NoJoiner EXCEPT !.pc = "error", !.addr = a, !.w2 = w2,
                                           !.xdr = artifact, !.sid = sid,
                                           !.err = [kind |-> r.err, reason |-> ""]]
        /\ lastCall' = IF own THEN lastCall
                       ELSE [lastCall EXCEPT !.joiner =
                               [name |-> "importAndSignAuthEntry", done |-> TRUE, ok |-> r.ok,
                                err |-> r.err, net |-> r.net, sub |-> Cardinality(r.sent),
                                self |-> (a = artifact.address),
                                expired |-> (artifact.expiration < ledgerSeq),
                                fresh |-> ~games[artifact.session_id].exists,
                                entries |-> <<>>]]
        /\ openNet' = IF own THEN openNet ELSE openNet \cup r.sent
        /\ UNCHANGED <<ledgerSeq, games, openedVia, artifact, intent, creator,
                       openStatus, variant, read, picked, timers, zk, editor, ui, gameNet, gameStatus, store>>

\* finalizeStartGame to the return of its send: tx.simulate(), the validity
\* window, one signAndSendViaLaunchtube
finalizeStartGame(tx, seq, gs) ==
    signAndSendViaLaunchtube([tx EXCEPT !.via = "finalizeStartGame"],
                             StartGameCheck(tx, seq, gs))

\* the responder's lobby calls finalizeStartGame on the imported transaction
finalizeStartGame_send ==
    LET r == finalizeStartGame([joiner.tx EXCEPT !.by = "join"], ledgerSeq, games)
    IN  /\ joiner.pc = "imported"
        /\ openNet' = openNet \cup r.sent
        /\ IF r.err # ""
           THEN /\ joiner' = [joiner EXCEPT !.pc = "error",
                                            !.err = [kind |-> r.err, reason |-> r.reason]]
                /\ lastCall' = [lastCall EXCEPT !.joiner =
                                  [NoCall EXCEPT !.name = "finalizeStartGame", !.ok = FALSE,
                                                 !.err = r.err, !.net = 3]]
                /\ UNCHANGED openStatus
           ELSE /\ joiner' = [joiner EXCEPT !.pc = "sent"]
                /\ openStatus' = [openStatus EXCEPT !.join =
                                    [status |-> "PENDING", reason |-> "",
                                     session_id |-> joiner.tx.session_id]]
                /\ lastCall' = [lastCall EXCEPT !.joiner =
                                  [NoCall EXCEPT !.name = "finalizeStartGame", !.done = FALSE,
                                                 !.net = 4, !.sub = Cardinality(r.sent)]]
        /\ UNCHANGED <<ledgerSeq, games, openedVia, artifact, intent, creator, variant, read, picked, timers, zk, editor,
                       ui, gameNet, gameStatus, store>>

\* the network applies a session-open transaction: the contract accepts it
\* and stores the session, or the transaction fails with the contract's reason
LedgerApplyOpen(tx) ==
    LET chk == StartGameCheck(tx, ledgerSeq, games)
        tracked == tx.via = "finalizeStartGame"
    IN  /\ tx \in openNet
        /\ openNet' = openNet \ {tx}
        /\ IF chk = ""
           THEN /\ games' = [games EXCEPT ![tx.session_id] = NewGame(tx)]
                /\ openedVia' = [openedVia EXCEPT ![tx.session_id] = tx.via]
                /\ openStatus' = IF tracked
                                  THEN [openStatus EXCEPT ![tx.by].status = "SUCCESS"]
                                  ELSE openStatus
           ELSE /\ openStatus' = IF tracked
                                  THEN [openStatus EXCEPT ![tx.by].status = "FAILED",
                                                          ![tx.by].reason = chk]
                                  ELSE openStatus
                /\ UNCHANGED <<games, openedVia>>
        /\ UNCHANGED <<ledgerSeq, artifact, intent, creator, joiner, lastCall, variant, read, picked, timers, zk, editor,
                       ui, gameNet, gameStatus, store>>

\* finalizeStartGame, second half: `return sentTx.result` once the send has
\* resolved.  The method makes no status check of its own: on a FAILED
\* transaction the getter either raises its generic error (thrown = TRUE) or
\* hands back a value (thrown = FALSE), and the method passes that on.
\* GameLobby then calls onGameReady with the typed session id at once; the
\* second lobby starts waiting for the session to be visible.
finalizeStartGame_result(thrown) ==
    /\ joiner.pc = "sent"
    /\ openStatus.join.status \in {"SUCCESS", "FAILED"}
    /\ IF openStatus.join.status = "FAILED" /\ thrown
       THEN /\ joiner' = [joiner EXCEPT !.pc = "error",
                                        !.err = [kind |-> "TransactionFailed", reason |-> ""]]
            /\ lastCall' = [lastCall EXCEPT !.joiner.done = TRUE, !.joiner.ok = FALSE,
                                            !.joiner.err = "TransactionFailed"]
            /\ UNCHANGED ui
       ELSE /\ lastCall' = [lastCall EXCEPT !.joiner.done = TRUE, !.joiner.ok = TRUE]
            /\ IF variant = "GameLobby"
               THEN /\ joiner' = [joiner EXCEPT !.pc = "ready", !.readySid = joiner.sid]
                    /\ ui' = [ui EXCEPT ![2] = handleGameReady(variant, store, ui[2], 2, joiner.sid, 2)]
               ELSE /\ joiner' = [joiner EXCEPT !.pc = "polling", !.polls = 0]
                    /\ UNCHANGED ui
    /\ UNCHANGED <<ledgerSeq, games, openedVia, artifact, intent, creator, openNet,
                   openStatus, variant, read, picked, timers, zk, editor, gameNet, gameStatus, store>>

\* handleJoinOrLoad: one iteration of the wait-for-visibility loop, at most
\* JoinPollAttempts reads, then onGameReady or the "not visible yet" error
handleJoin_poll(readOk) ==
    LET game == getGame(joiner.sid, readOk)
    IN  /\ joiner.pc = "polling"
        /\ IF game.exists
           THEN /\ joiner' = [joiner EXCEPT !.pc = "ready", !.polls = 0,
                                            !.readySid = joiner.sid]
                /\ ui' = [ui EXCEPT ![2] = handleGameReady(variant, store, ui[2], 2, joiner.sid, 2)]
           ELSE /\ joiner' = IF joiner.polls + 1 >= JoinPollAttempts
                             THEN [joiner EXCEPT !.pc = "error", !.polls = 0,
                                                 !.err = [kind |-> "NotVisible", reason |-> ""]]
                             ELSE [joiner EXCEPT !.polls = joiner.polls + 1]
                /\ UNCHANGED ui
        /\ UNCHANGED <<ledgerSeq, games, openedVia, artifact, intent, creator, openNet,
                       openStatus, lastCall, variant, read, picked, timers, zk, editor, gameNet, gameStatus, store>>

\* runAction: nothing runs while the lock is held or the component is busy
isBusy(u) == u.loading \/ u.quickstartLoading \/ u.isCommitting \/ u.isResponding

runActionBlocked(u) == u.actionLock \/ isBusy(u)

\* handleQuickStart (PoisonGameGame.tsx, dev wallets, responder's browser),
\* under runAction: a fresh random session id, then prepareStartGame for dev
\* player 1, importAndSignAuthEntry for dev player 2 and finalizeStartGame, up
\* to the return of the send.  The button is disabled while quickstartLoading.
handleQuickStart(qsId) ==
    LET u == ui[2]
        r1 == prepareStartGame(qsId, "GA", "GB", FixedWager, FixedWager, ledgerSeq, games)
        r2 == importAndSignAuthEntry(r1.value, "GB", FixedWager, ledgerSeq, games)
        r3 == finalizeStartGame([r2.value EXCEPT !.by = "quick"], ledgerSeq, games)
        failed == ~r1.ok \/ ~r2.ok \/ r3.err # ""
    IN  /\ variant = "GameLobby"
        /\ u.screen = "lobby"
        /\ ~u.quickstartLoading
        /\ ~runActionBlocked(u)
        /\ ~intent[qsId].exists
        /\ intent' = IF r1.ok
                     THEN [intent EXCEPT ![qsId] = [exists |-> TRUE, player1 |-> "GA",
                                                    w1 |-> FixedWager]]
                     ELSE intent
        /\ IF failed
           THEN /\ ui' = [ui EXCEPT ![2].sessionId = qsId, ![2].err = "Quickstart failed"]
                /\ lastCall' = [lastCall EXCEPT !.quick =
                                  [NoCall EXCEPT !.name = "quickstart", !.ok = FALSE]]
                /\ UNCHANGED <<openNet, openStatus>>
           ELSE /\ ui' = [ui EXCEPT ![2].sessionId = qsId, ![2].err = "",
                                    ![2].actionLock = TRUE, ![2].quickstartLoading = TRUE,
                                    ![2].qsPc = "sent", ![2].qsPolls = 0]
                /\ openNet' = openNet \cup r3.sent
                /\ openStatus' = [openStatus EXCEPT !.quick =
                                    [status |-> "PENDING", reason |-> "", session_id |-> qsId]]
                /\ lastCall' = [lastCall EXCEPT !.quick =
                                  [NoCall EXCEPT !.name = "finalizeStartGame", !.done = FALSE,
                                                 !.net = 4, !.sub = Cardinality(r3.sent)]]
        /\ UNCHANGED <<ledgerSeq, games, openedVia, artifact, creator, joiner, variant, read, picked, timers, zk, editor,
                       gameNet, gameStatus, store>>

\* handleQuickStart: finalizeStartGame returns or throws; the catch shows the
\* error, the finally blocks clear quickstartLoading and the lock
handleQuickStart_result(thrown) ==
    /\ ui[2].qsPc = "sent"
    /\ openStatus.quick.status \in {"SUCCESS", "FAILED"}
    /\ IF openStatus.quick.status = "FAILED" /\ thrown
       THEN /\ ui' = [ui EXCEPT ![2].qsPc = "idle", ![2].err = "Quickstart failed",
                                ![2].quickstartLoading = FALSE, ![2].actionLock = FALSE]
            /\ lastCall' = [lastCall EXCEPT !.quick.done = TRUE, !.quick.ok = FALSE,
                                            !.quick.err = "TransactionFailed"]
       ELSE /\ ui' = [ui EXCEPT ![2].qsPc = "polling", ![2].qsPolls = 0]
            /\ lastCall' = [lastCall EXCEPT !.quick.done = TRUE, !.quick.ok = TRUE]
    /\ UNCHANGED <<ledgerSeq, games, openedVia, artifact, intent, creator, joiner, openNet,
                   openStatus, variant, read, picked, timers, zk, editor, gameNet, gameStatus, store>>

\* handleQuickStart: one iteration of its wait loop; when the session is
\* visible the component goes to the commit phase of the game screen
handleQuickStart_poll(readOk) ==
    LET g == getGame(openStatus.quick.session_id, readOk)
    IN  /\ ui[2].qsPc = "polling"
        /\ ui' = IF g.exists
                 THEN [ui EXCEPT ![2].qsPc = "idle", ![2].qsPolls = 0,
                                 ![2].gamePhase = "commit", ![2].screen = "game",
                                 ![2].quickstartLoading = FALSE, ![2].actionLock = FALSE]
                 ELSE IF ui[2].qsPolls + 1 >= QuickstartPollAttempts
                 THEN [ui EXCEPT ![2].qsPc = "idle", ![2].qsPolls = 0,
                                 ![2].err = "Game not found after creation",
                                 ![2].quickstartLoading = FALSE, ![2].actionLock = FALSE]
                 ELSE [ui EXCEPT ![2].qsPolls = @ + 1]
        /\ UNCHANGED <<ledgerSeq, games, openedVia, artifact, intent, creator, joiner,
                       openNet, openStatus, lastCall, variant, read, picked, timers, zk, editor, gameNet, gameStatus, store>>

NextOpen ==
    \/ Tick
    \/ \E sid \in SessionIds, w \in Wagers, opp \in Addresses \cup {Placeholder} :
          handleCreate(sid, w, opp)
    \/ \E readOk \in BOOLEAN : creatorPoll(readOk)
    \/ \E a \in Addresses, w2 \in Wagers, sidInput \in SessionIds :
          handleJoin(a, w2, sidInput)
    \/ finalizeStartGame_send
    \/ \E tx \in openNet : LedgerApplyOpen(tx)
    \/ \E thrown \in BOOLEAN : finalizeStartGame_result(thrown)
    \/ \E readOk \in BOOLEAN : handleJoin_poll(readOk)
    \/ \E qsId \in SessionIds : handleQuickStart(qsId)
    \/ \E thrown \in BOOLEAN : handleQuickStart_result(thrown)
    \/ \E readOk \in BOOLEAN : handleQuickStart_poll(readOk)

SpecOpen == InitOpen /\ [][NextOpen]_vars

(* ------------------------------------------------------------------ *)
(* The handshake over every array the simulation may return            *)
(* ------------------------------------------------------------------ *)
\* sessions other players have opened on the ledger before the lobby is used
OpenedBefore == {NoGame, NewGame(StartGameTx(0, "GB", "GC", Zero128, Zero128, "GC"))}
InitAuth ==
    /\ ledgerSeq \in 0..MaxLedgerSeq
    /\ games \in [SessionIds -> OpenedBefore]
    /\ openedVia = [s \in SessionIds |-> ""]
    /\ artifact = NoEntry
    /\ intent = [s \in SessionIds |-> NoIntent]
    /\ creator = NoCreator
    /\ joiner = NoJoiner
    /\ openNet = {}
    /\ openStatus = [join |-> NoStatus, quick |-> NoStatus]
    /\ lastCall = [creator |-> NoCall, joiner |-> NoCall, quick |-> NoCall]
    /\ variant \in LobbyVariants
    /\ ui = [c \in Browsers |-> InitUi(variant)]
    /\ gameNet = {}
    /\ gameStatus = [c \in Browsers |-> [k \in GameMethods |-> NoStatus]]
    /\ store = [c \in Browsers |-> [s \in SessionIds |-> NoSecret]]
    /\ read = NoRead
    /\ picked = NoPick
    /\ timers = NoTimers
    /\ zk = NoZk
    /\ editor = NoEditor

NextAuth ==
    \/ Tick
    \/ \E sid \in SessionIds, w \in Wagers, opp \in Addresses \cup {Placeholder} :
          LET p2 == IF variant = "GameLobby" THEN opp ELSE Placeholder
              tx == StartGameTx(sid, creator.addr, p2, w, w, p2)
          IN  \E authEntries \in SimulatedAuthEntries(tx, SimulateStartGame(tx, games)) :
                 handleCreateGame(sid, w, opp, authEntries)

SpecAuth == InitAuth /\ [][NextAuth]_vars

(* ------------------------------------------------------------------ *)
(* SpecPoll: the initiator's wait for the opponent, on the clock        *)
(* ------------------------------------------------------------------ *)
\* SpecPoll follows the clock in periods of the poll: waits start on a period
\* boundary, the interval's callback runs once per period, and a timeout's
\* callback runs at its due time, after an interval callback due at the same
\* instant (timers run in order of due time, then of registration)
MaxClockMs == MaxPeriods * PollIntervalMs
MaxStartMs == MaxStartPeriod * PollIntervalMs

\* no timeout is due before the clock reaches `at`
NoTimeoutBefore(at) == \A d \in timers.timeouts : d >= at

\* the create button of the mounted lobby
createAndWait(sid) ==
    /\ timers.mounted
    /\ timers.now <= MaxStartMs
    /\ handleCreate(sid, FixedWager, IF variant = "GameLobby" THEN "GB" ELSE Placeholder)

\* a period passes and the interval's callback runs
intervalElapses(readOk) ==
    /\ timers.now + PollIntervalMs <= MaxClockMs
    /\ NoTimeoutBefore(timers.now + PollIntervalMs)
    /\ creatorPollAfter(readOk, PollIntervalMs)

\* a period passes with no interval set
idleElapses ==
    /\ timers.live = {}
    /\ timers.timeouts # {}
    /\ timers.now + PollIntervalMs <= MaxClockMs
    /\ NoTimeoutBefore(timers.now + PollIntervalMs)
    /\ timers' = [timers EXCEPT !.now = @ + PollIntervalMs]
    /\ UNCHANGED <<ledgerSeq, games, openedVia, artifact, intent, creator, joiner, openNet,
                   openStatus, lastCall, variant, read, picked, zk, editor, ui, gameNet, gameStatus, store>>

\* the callback of the 10 minute timeout: if pollRef holds an interval it is
\* cleared, the wait ends and the error is shown (state updates of a lobby
\* that is no longer mounted are dropped)
pollTimeout ==
    \E d \in timers.timeouts :
        /\ d <= timers.now
        /\ IF timers.pollRef # NoInterval
           THEN /\ timers' = [timers EXCEPT !.timeouts = @ \ {d},
                                            !.live = @ \ {timers.pollRef},
                                            !.pollRef = NoInterval,
                                            !.error = IF timers.mounted THEN "WaitTimeout" ELSE @]
                /\ creator' = IF timers.mounted THEN [creator EXCEPT !.pc = "timedOut"]
                              ELSE creator
           ELSE /\ timers' = [timers EXCEPT !.timeouts = @ \ {d}]
                /\ UNCHANGED creator
        /\ UNCHANGED <<ledgerSeq, games, openedVia, artifact, intent, joiner, openNet,
                       openStatus, lastCall, variant, read, picked, zk, editor, ui, gameNet, gameStatus, store>>

\* "Start Over" of the second lobby, shown while the share panel is shown
startOver ==
    /\ variant = "PoisonGameLobby"
    /\ timers.mounted
    /\ creator.pc \in {"waiting", "timedOut"}
    /\ creator' = [creator EXCEPT !.pc = "idle"]
    /\ timers' = [timers EXCEPT !.live = @ \ {timers.pollRef}, !.pollRef = NoInterval]
    /\ UNCHANGED <<ledgerSeq, games, openedVia, artifact, intent, joiner, openNet,
                   openStatus, lastCall, variant, read, picked, zk, editor, ui, gameNet, gameStatus, store>>

\* the lobby is taken off the screen while it waits: the cleanup of its
\* effect clears the interval pollRef holds and leaves pollRef as it is
unmountLobby ==
    /\ timers.mounted
    /\ ui[1].screen = "lobby"
    /\ timers' = [timers EXCEPT !.mounted = FALSE, !.live = @ \ {timers.pollRef}]
    /\ UNCHANGED <<ledgerSeq, games, openedVia, artifact, intent, creator, joiner, openNet,
                   openStatus, lastCall, variant, read, picked, zk, editor, ui, gameNet, gameStatus, store>>

\* the opponent completes the handshake for the shared artifact and the
\* ledger stores the session
opponentJoins ==
    LET r == importAndSignAuthEntry(artifact, "GB", FixedWager, ledgerSeq, games)
    IN  /\ artifact.exists
        /\ r.ok
        /\ StartGameCheck(r.value, ledgerSeq, games) = ""
        /\ games' = [games EXCEPT ![artifact.session_id] = NewGame(r.value)]
        /\ openedVia' = [openedVia EXCEPT ![artifact.session_id] = "finalizeStartGame"]
        /\ UNCHANGED <<ledgerSeq, artifact, intent, creator, joiner, openNet, openStatus,
                       lastCall, variant, read, picked, timers, zk, editor, ui, gameNet, gameStatus, store>>

NextPoll ==
    \/ \E sid \in SessionIds : createAndWait(sid)
    \/ \E readOk \in BOOLEAN : intervalElapses(readOk)
    \/ idleElapses
    \/ pollTimeout
    \/ startOver
    \/ unmountLobby
    \/ opponentJoins

SpecPoll == InitOpen /\ [][NextPoll]_vars

(* ------------------------------------------------------------------ *)
(* SpecIds: the session id an initiator chooses                         *)
(* ------------------------------------------------------------------ *)
HalfSamples == {0, 1, 2, HalfWord - 1}
U32Samples == {U32(h, l) : h \in HalfSamples, l \in HalfSamples}
IsZero32(v) == v.hi = 0 /\ v.lo = 0
InU32(v) == v.hi \in 0..(HalfWord - 1) /\ v.lo \in 0..(HalfWord - 1)
Less32(a, b) == a.hi < b.hi \/ (a.hi = b.hi /\ a.lo < b.lo)
Pred32(v) == IF v.lo > 0 THEN U32(v.hi, v.lo - 1) ELSE U32(v.hi - 1, HalfWord - 1)

\* 0xffffffff, the factor of createRandomSessionId's fallback
Factor32 == U32(HalfWord - 1, HalfWord - 1)
\* 1000000000 = 15258 * 65536 + 51712, the factor of GameLobby.tsx
FactorLobby == U32(15258, 51712)

\* Math.floor(Math.random() * k): Math.random() is in [0, 1), so the result is
\* a whole number from 0 to k - 1; the values followed are the samples below
\* k and k - 1 itself
FloorRandom(k) == {v \in U32Samples \cup {Pred32(k)} : Less32(v, k)}

\* x >>> 0: the value modulo 2^32
ToUint32(x) == U32(x.hi % HalfWord, x.lo % HalfWord)
\* x || 1
OrOne(x) == IF IsZero32(x) THEN U32(0, 1) ELSE x

\* where an initiator chooses a session id: the create handler of the lobby,
\* the quickstart, and "play again" of PoisonGameGame.tsx
PickSites(v) ==
    IF v = "GameLobby" THEN {"create", "quickstart", "playAgain"}
    ELSE {"create", "quickstart"}

\* whether the site calls createRandomSessionId; the create handler of
\* GameLobby.tsx computes Math.floor(Math.random() * 1000000000) itself
usesHelper(v, site) == ~(v = "GameLobby" /\ site = "create")

idFrame == <<ledgerSeq, games, openedVia, artifact, intent, creator, joiner, openNet,
             openStatus, lastCall, variant, read, timers, zk, editor, ui, gameNet, gameStatus, store>>

\* GameLobby.tsx handleCreateGame: sessionId = Math.floor(Math.random() * 1000000000)
lobbyPick(x) ==
    /\ picked.pc # "drawing"
    /\ ~usesHelper(variant, "create")
    /\ x \in FloorRandom(FactorLobby)
    /\ picked' = [site |-> "create", pc |-> "done", crypto |-> FALSE, draws |-> 0, value |-> x]
    /\ UNCHANGED idFrame

\* createRandomSessionId where crypto.getRandomValues exists: value = 0 and
\* the loop is entered
createRandomSessionId_crypto(site) ==
    /\ picked.pc # "drawing"
    /\ site \in PickSites(variant)
    /\ usesHelper(variant, site)
    /\ picked' = [site |-> site, pc |-> "drawing", crypto |-> TRUE, draws |-> 0,
                  value |-> U32(0, 0)]
    /\ UNCHANGED idFrame

\* one turn of `while (value === 0)`: buffer[0] is read; a non-zero value is
\* returned
getRandomValues(v) ==
    /\ picked.pc = "drawing"
    /\ picked.draws < MaxDraws
    /\ picked' = [picked EXCEPT !.draws = @ + 1, !.value = v,
                                !.pc = IF IsZero32(v) THEN "drawing" ELSE "done"]
    /\ UNCHANGED idFrame

\* createRandomSessionId without crypto:
\* (Math.floor(Math.random() * 0xffffffff) >>> 0) || 1
createRandomSessionId_fallback(site, x) ==
    /\ picked.pc # "drawing"
    /\ site \in PickSites(variant)
    /\ usesHelper(variant, site)
    /\ x \in FloorRandom(Factor32)
    /\ picked' = [site |-> site, pc |-> "done", crypto |-> FALSE, draws |-> 0,
                  value |-> OrOne(ToUint32(x))]
    /\ UNCHANGED idFrame

NextIds ==
    \/ \E x \in FloorRandom(FactorLobby) : lobbyPick(x)
    \/ \E site \in {"create", "quickstart", "playAgain"} : createRandomSessionId_crypto(site)
    \/ \E v \in U32Samples : getRandomValues(v)
    \/ \E site \in {"create", "quickstart", "playAgain"}, x \in FloorRandom(Factor32) :
          createRandomSessionId_fallback(site, x)

SpecIds == InitOpen /\ [][NextIds]_vars

(* ------------------------------------------------------------------ *)
(* SpecRead: getGame over ledgers and session ids                       *)
(* ------------------------------------------------------------------ *)
\* session ids a caller may pass: those of the ledger and two that no ledger
\* of the model stores
ReadIds == 0..(MaxSessionId + 1)
RpcOutcomes == {"ok", "throws"}
\* a session as the ledger may hold it: none, just opened, or played to its end
StoredSessions ==
    LET g == NewGame(StartGameTx(0, "GA", "GB", FixedWager, FixedWager, "GB"))
    IN  {NoGame, g, [g EXCEPT !.phase = Finished, !.winner = 1]}

readFrame == <<ledgerSeq, games, openedVia, artifact, intent, creator, joiner, openNet,
               openStatus, lastCall, variant, picked, timers, zk, editor, ui, gameNet,
               gameStatus, store>>

\* a call of getGame
readSession(sid, rpc) ==
    LET r == getGame_call(sid, rpc, games)
    IN  /\ read' = [called |-> TRUE, sid |-> sid, rpc |-> rpc, raised |-> r.raised,
                    value |-> r.value]
        /\ UNCHANGED readFrame

InitRead ==
    /\ ledgerSeq = 0
    /\ games \in [SessionIds -> StoredSessions]
    /\ openedVia = [s \in SessionIds |-> ""]
    /\ artifact = NoEntry
    /\ intent = [s \in SessionIds |-> NoIntent]
    /\ creator = NoCreator
    /\ joiner = NoJoiner
    /\ openNet = {}
    /\ openStatus = [join |-> NoStatus, quick |-> NoStatus]
    /\ lastCall = [creator |-> NoCall, joiner |-> NoCall, quick |-> NoCall]
    /\ variant \in LobbyVariants
    /\ ui = [c \in Browsers |-> InitUi(variant)]
    /\ gameNet = {}
    /\ gameStatus = [c \in Browsers |-> [k \in GameMethods |-> NoStatus]]
    /\ store = [c \in Browsers |-> [s \in SessionIds |-> NoSecret]]
    /\ read = NoRead
    /\ picked = NoPick
    /\ timers = NoTimers
    /\ zk = NoZk
    /\ editor = NoEditor

NextRead == \E sid \in ReadIds, rpc \in RpcOutcomes : readSession(sid, rpc)

SpecRead == InitRead /\ [][NextRead]_vars

(* ------------------------------------------------------------------ *)
(* Boards, commitments and proofs                                       *)
(* ------------------------------------------------------------------ *)
Tiles == 0..(NumTiles - 1)
\* tiles a player clicks on the opponent's board
ClickTiles == 0..MaxTile
Salts == 1..MaxSalt

EmptyBoard == [i \in 1..NumTiles |-> 0]
\* the board each player lays out: 2 Poison (1) and 1 Shield (2)
LaidBoard(c) ==
    IF c = 1 THEN [i \in 1..NumTiles |-> IF i \in {1, 2} THEN 1 ELSE IF i = 3 THEN 2 ELSE 0]
    ELSE [i \in 1..NumTiles |-> IF i \in {2, 3} THEN 1 ELSE IF i = 1 THEN 2 ELSE 0]
\* what may be on the grid when the lock-board button is looked at
BoardInputs(c) == {LaidBoard(c), EmptyBoard}

CountTiles(tiles, t) == Cardinality({i \in 1..Len(tiles) : tiles[i] = t})

\* the result of validateBoard: { valid, error? }.  The error text is kept as
\* the constraint it names and the number its template prints; counted is
\* FALSE for the one message that prints no number
BoardOk == [valid |-> TRUE, error |-> "", counted |-> FALSE, count |-> 0]
BoardError(error, counted, count) ==
    [valid |-> FALSE, error |-> error, counted |-> counted, count |-> count]

\* variant: the Shield count is not looked at
validateBoard_noShield(tiles) ==
    IF Len(tiles) # NumTiles THEN BoardError("NeedTiles", TRUE, Len(tiles))
    ELSE IF \E i \in 1..Len(tiles) : tiles[i] \notin {0, 1, 2}
    THEN BoardError("InvalidTileValues", FALSE, 0)
    ELSE IF CountTiles(tiles, 1) # 2 THEN BoardError("NeedPoison", TRUE, CountTiles(tiles, 1))
    ELSE BoardOk

\* validateBoard: the checks in the order of the code, the first that fails
\* decides the message: `Need 15 tiles, got n`, 'Invalid tile values',
\* `Need exactly 2 poison tiles, got n`, `Need exactly 1 shield tile, got n`
validateBoard(tiles) ==
    IF Len(tiles) # NumTiles THEN BoardError("NeedTiles", TRUE, Len(tiles))
    ELSE IF \E i \in 1..Len(tiles) : tiles[i] \notin {0, 1, 2}
    THEN BoardError("InvalidTileValues", FALSE, 0)
    ELSE IF CountTiles(tiles, 1) # 2 THEN BoardError("NeedPoison", TRUE, CountTiles(tiles, 1))
    ELSE IF CountTiles(tiles, 2) # 1 THEN BoardError("NeedShield", TRUE, CountTiles(tiles, 2))
    ELSE BoardOk

\* variant: the lock-board button never looks at the grid
boardValid_unchecked(myBoard) == TRUE

\* boardValid of a render: validateBoard(myBoard).valid
boardValid(myBoard) == validateBoard(myBoard).valid

\* computeBoardHash: Poseidon2 over the tiles and the salt; the hash is kept
\* as the pair it binds (collision-free), with the length of its buffer: a
\* field element serialises to 32 bytes
computeBoardHash(tiles, salt) == [tiles |-> tiles, salt |-> salt, bytes |-> HashBytes]

\* the first engine throws on a proof of the wrong size, the second one warns
\* and returns it
proofSizeEnforced(v) == v = "GameLobby"

\* variant: the witness is computed before the arguments are looked at
generateTileProof_late(v, tiles, salt, commitment, tileIndex, tileType, proofSize) ==
    IF Len(tiles) # NumTiles THEN ProofThrown("Need15Tiles", TRUE)
    ELSE IF tileIndex < 0 \/ tileIndex > 14 THEN ProofThrown("InvalidTileIndex", TRUE)
    ELSE IF tiles[tileIndex + 1] # tileType THEN ProofThrown("TileTypeMismatch", TRUE)
    ELSE IF commitment # computeBoardHash(tiles, salt) THEN ProofThrown("CircuitUnsatisfied", TRUE)
    ELSE IF proofSize # ProofBytes /\ proofSizeEnforced(v) THEN ProofThrown("WrongProofSize", TRUE)
    ELSE [ok |-> TRUE, err |-> "", executed |-> TRUE, bytes |-> proofSize,
          commitment |-> commitment, tile_index |-> tileIndex, tile_type |-> tileType]

\* generateTileProof on an initialised engine: 15 tiles, tile index in 0..14
\* and the claimed type equal to the tile's are checked before noir.execute;
\* the circuit has no witness when the commitment is not the hash of tiles
\* and salt; proofSize is the length of what backend.generateProof returns.
\* The proof carries its public inputs (commitment, tile index, tile type)
generateTileProof(v, tiles, salt, commitment, tileIndex, tileType, proofSize) ==
    IF Len(tiles) # NumTiles THEN ProofThrown("Need15Tiles", FALSE)
    ELSE IF tileIndex < 0 \/ tileIndex > 14 THEN ProofThrown("InvalidTileIndex", FALSE)
    ELSE IF tiles[tileIndex + 1] # tileType THEN ProofThrown("TileTypeMismatch", FALSE)
    ELSE IF commitment # computeBoardHash(tiles, salt) THEN ProofThrown("CircuitUnsatisfied", TRUE)
    ELSE IF proofSize # ProofBytes /\ proofSizeEnforced(v) THEN ProofThrown("WrongProofSize", TRUE)
    ELSE [ok |-> TRUE, err |-> "", executed |-> TRUE, bytes |-> proofSize,
          commitment |-> commitment, tile_index |-> tileIndex, tile_type |-> tileType]

(* ------------------------------------------------------------------ *)
(* PoisonGameService: commitBoard, attack, respondToAttack              *)
(* ------------------------------------------------------------------ *)
GameOf(gs, sid) == IF sid \in SessionIds THEN gs[sid] ELSE NoGame

GameTx(kind, c, sid, player, hash, tile, type, proof) ==
    [kind |-> kind, from |-> c, session_id |-> sid, player |-> player, board_hash |-> hash,
     tile_index |-> tile, tile_type |-> type, proof |-> proof, orphan |-> FALSE]

\* variant: the send is repeated when no confirmation has arrived
commitBoard_resend(c, sessionId, player, boardHash, gs) ==
    LET tx == GameTx("commit_board", c, sessionId, player, boardHash, 0, 0, NoProof)
        r == signAndSendViaLaunchtube(tx, CommitCheck(GameOf(gs, sessionId), player))
    IN  IF r.err # "" THEN r ELSE [r EXCEPT !.sent = @ \cup {[tx EXCEPT !.orphan = TRUE]}]

\* variant: the transaction is sent whatever its simulation says
commitBoard_blind(c, sessionId, player, boardHash, gs) ==
    [err |-> "", reason |-> "",
     sent |-> {GameTx("commit_board", c, sessionId, player, boardHash, 0, 0, NoProof)}]

\* commitBoard to the return of its send: a board hash of 32 bytes, build and
\* simulate commit_board, one signAndSendViaLaunchtube
commitBoard(c, sessionId, player, boardHash, gs) ==
    IF boardHash.bytes # HashBytes
    THEN [err |-> "BoardHashLength", reason |-> "", sent |-> {}]
    ELSE signAndSendViaLaunchtube(
             GameTx("commit_board", c, sessionId, player, boardHash, 0, 0, NoProof),
             CommitCheck(GameOf(gs, sessionId), player))

\* variant: the attack is sent whatever its simulation says
attack_blind(c, sessionId, attacker, tileIndex, gs) ==
    [err |-> "", reason |-> "",
     sent |-> {GameTx("attack", c, sessionId, attacker, NoHash, tileIndex, 0, NoProof)}]

\* attack to the return of its send: tile index in 0..14, build and simulate
\* attack, one signAndSendViaLaunchtube
attack(c, sessionId, attacker, tileIndex, gs) ==
    IF tileIndex < 0 \/ tileIndex > 14
    THEN [err |-> "InvalidArgument", reason |-> "", sent |-> {}]
    ELSE signAndSendViaLaunchtube(
             GameTx("attack", c, sessionId, attacker, NoHash, tileIndex, 0, NoProof),
             AttackCheck(GameOf(gs, sessionId), attacker, tileIndex))

\* poisonGameService.ts throws on a proof blob that has not 14592 bytes; the
\* service of the second build logs a warning and goes on
proofLengthEnforced(v) == v = "GameLobby"

\* respondToAttack to the return of its send
respondToAttack(v, c, sessionId, defender, tileType, proofBlob, gs) ==
    IF proofBlob.bytes # ProofBytes /\ proofLengthEnforced(v)
    THEN [err |-> "ProofLength", reason |-> "", sent |-> {}]
    ELSE signAndSendViaLaunchtube(
             GameTx("respond_to_attack", c, sessionId, defender, NoHash, 0, tileType, proofBlob),
             RespondCheck(GameOf(gs, sessionId), defender, tileType, proofBlob))

\* variant: a failed transaction is reported by its status alone
extractError_statusOnly(txResponse) == "Transaction " \o txResponse.status

\* extractError: the text of the error event among the response's diagnostic
\* events, or "Transaction <status>" when there is none
extractError(txResponse) ==
    IF txResponse.reason # "" THEN txResponse.reason
    ELSE "Transaction " \o txResponse.status

\* variant: the catch block shows the call's own error, not the reason
Surfaced_generic(r) == r.err

\* the message a handler's catch block shows: the contract's reason when the
\* call failed with one, otherwise the call's own error
Surfaced(r) == IF r.reason # "" THEN r.reason ELSE r.err

\* outcome of a game transaction on session g: "" accepts
GameTxCheck(g, tx) ==
    IF tx.kind = "commit_board" THEN CommitCheck(g, tx.player)
    ELSE IF tx.kind = "attack" THEN AttackCheck(g, tx.player, tx.tile_index)
    ELSE RespondCheck(g, tx.player, tx.tile_type, tx.proof)

GameTxApply(g, tx) ==
    IF tx.kind = "commit_board" THEN CommitApply(g, tx.player, tx.board_hash)
    ELSE IF tx.kind = "attack" THEN AttackApply(g, tx.tile_index)
    ELSE RespondApply(g, tx.player, tx.tile_type)

\* the network applies a commit / attack / respond transaction; the status is
\* reported to the call that still waits for it
LedgerApplyGame(tx) ==
    LET g == games[tx.session_id]
        chk == GameTxCheck(g, tx)
    IN  /\ tx \in gameNet
        /\ gameNet' = gameNet \ {tx}
        /\ games' = IF chk = "" THEN [games EXCEPT ![tx.session_id] = GameTxApply(g, tx)]
                    ELSE games
        /\ gameStatus' = IF tx.orphan THEN gameStatus
                         ELSE [gameStatus EXCEPT ![tx.from][tx.kind] =
                                 [status |-> IF chk = "" THEN "SUCCESS" ELSE "FAILED",
                                  reason |-> chk, session_id |-> tx.session_id]]
        /\ UNCHANGED <<ledgerSeq, openedVia, artifact, intent, creator, joiner, openNet,
                       openStatus, lastCall, variant, read, picked, timers, zk, editor, ui, store>>

(* ------------------------------------------------------------------ *)
(* The game component (second build)                                    *)
(* ------------------------------------------------------------------ *)
\* variant: the attack is offered whenever no attack is pending
isMyAttackTurn_anyTurn(myPlayerNum, gameState) ==
    /\ myPlayerNum # 0
    /\ ~(gameState.exists /\ gameState.has_pending_attack)
    /\ gameState.exists

\* isMyAttackTurn / isMyDefenseTurn of the second component: myPlayerNum is the
\* number locked at lobby exit; an unobserved session (gameState null) gives
\* has_pending_attack and current_turn undefined
isMyAttackTurn(myPlayerNum, gameState) ==
    /\ myPlayerNum # 0
    /\ ~(gameState.exists /\ gameState.has_pending_attack)
    /\ gameState.exists /\ gameState.current_turn = myPlayerNum

\* variant: the defender is taken to be the player whose turn it is
isMyDefenseTurn_sameTurn(myPlayerNum, gameState) ==
    /\ myPlayerNum # 0
    /\ gameState.exists /\ gameState.has_pending_attack
    /\ gameState.exists /\ gameState.current_turn = myPlayerNum

isMyDefenseTurn(myPlayerNum, gameState) ==
    /\ myPlayerNum # 0
    /\ gameState.exists /\ gameState.has_pending_attack
    /\ ~(gameState.exists /\ gameState.current_turn = myPlayerNum)

\* PoisonGameGame.tsx derives the player number from the observed session
myPlayerNumDerived(userAddress, gameState) ==
    IF gameState.exists /\ gameState.player1 = userAddress THEN 1
    ELSE IF gameState.exists /\ gameState.player2 = userAddress THEN 2
    ELSE 0

oppRevealedTiles(myPlayerNum, gameState) ==
    IF myPlayerNum = 1 THEN gameState.p2_revealed ELSE gameState.p1_revealed

\* saveBoard: localStorage.setItem inside a try block whose catch is empty; a
\* setItem that throws (storage full or unavailable) leaves the storage as it
\* was and the caller is not told
saveBoard_caught(st, c, sid, tiles, salt, commitment, storageOk) ==
    IF storageOk
    THEN [st EXCEPT ![c][sid] = [exists |-> TRUE, tiles |-> tiles, salt |-> salt,
                                 commitment |-> commitment]]
    ELSE st

\* saveBoard where the storage takes the record
saveBoard(st, c, sid, tiles, salt, commitment) ==
    saveBoard_caught(st, c, sid, tiles, salt, commitment, TRUE)

clearBoard(st, c, sid) == [st EXCEPT ![c][sid] = NoSecret]

\* the in-flight transactions of browser c lose the call that waited for them
Orphaned(net, c, kinds) ==
    {IF tx.from = c /\ tx.kind \in kinds THEN [tx EXCEPT !.orphan = TRUE] ELSE tx : tx \in net}

\* variant: the play phase is shown as soon as a commitment is on the ledger
gamePhaseFor_eager(game) ==
    IF game.phase = Finished THEN "complete"
    ELSE IF game.phase = Playing \/ game.player1_committed \/ game.player2_committed
         THEN "play"
    ELSE "commit"

\* the phase the component shows for a fetched session
gamePhaseFor(game) ==
    IF game.phase = Finished THEN "complete"
    ELSE IF game.phase = Playing THEN "play"
    ELSE "commit"

\* the 5 s poll of the game screen: a session that cannot be read changes
\* nothing; otherwise the observed state, the phase and boardCommitted follow
poll(c, readOk) ==
    LET u == ui[c]
        game == getGame(u.sessionId, readOk)
        committed == IF BrowserAddr(c) = game.player1 THEN game.player1_committed
                     ELSE IF BrowserAddr(c) = game.player2 THEN game.player2_committed
                     ELSE FALSE
    IN  /\ u.screen = "game"
        /\ u.sessionId # 0
        /\ game.exists
        /\ ui' = [ui EXCEPT ![c].gameState = game,
                            ![c].gamePhase = gamePhaseFor(game),
                            ![c].boardCommitted = committed]
        /\ UNCHANGED <<games, gameNet, gameStatus, store>>
        /\ UNCHANGED lobbyVars

\* handleCommitBoard up to the return of commitBoard's send.  Not under
\* runAction; the button is disabled while the board is invalid or a commit
\* is running.  The secret is saved before the call and removed when it fails.
handleCommitBoard_storage(c, board, salt, storageOk) ==
    LET u == ui[c]
        commitment == computeBoardHash(board, salt)
        r == commitBoard(c, u.sessionId, BrowserAddr(c), commitment, games)
        saved == saveBoard_caught(store, c, u.sessionId, board, salt, commitment, storageOk)
    IN  /\ u.screen = "game"
        /\ u.gamePhase = "commit"
        /\ ~u.boardCommitted
        /\ ~u.isCommitting
        /\ boardValid(board)
        /\ IF r.err # ""
           THEN /\ ui' = [ui EXCEPT ![c].boardCommitted = FALSE, ![c].err = Surfaced(r)]
                /\ store' = clearBoard(saved, c, u.sessionId)
                /\ UNCHANGED <<gameNet, gameStatus>>
           ELSE /\ ui' = [ui EXCEPT ![c].isCommitting = TRUE, ![c].err = "",
                                    ![c].commitPc = "sent", ![c].commitPolls = 0]
                /\ store' = saved
                /\ gameNet' = gameNet \cup r.sent
                /\ gameStatus' = [gameStatus EXCEPT ![c].commit_board =
                                    [status |-> "PENDING", reason |-> "",
                                     session_id |-> u.sessionId]]
        /\ UNCHANGED games
        /\ UNCHANGED lobbyVars

\* handleCommitBoard in a browser whose storage takes the record
handleCommitBoard(c, board, salt) == handleCommitBoard_storage(c, board, salt, TRUE)

\* commitBoard: one getTransaction read of its loop (at most
\* CommitPollAttempts), and the end of handleCommitBoard when the loop ends
handleCommitBoard_poll(c) ==
    LET u == ui[c]
        st == gameStatus[c].commit_board
        sid == st.session_id
    IN  /\ u.commitPc = "sent"
        /\ IF st.status = "SUCCESS"
           THEN /\ ui' = [ui EXCEPT ![c].commitPc = "idle", ![c].isCommitting = FALSE,
                                    ![c].commitPolls = 0]
                /\ gameStatus' = [gameStatus EXCEPT ![c].commit_board = NoStatus]
                /\ UNCHANGED <<gameNet, store>>
           ELSE IF st.status = "FAILED"
           THEN /\ ui' = [ui EXCEPT ![c].commitPc = "idle", ![c].isCommitting = FALSE,
                                    ![c].commitPolls = 0, ![c].boardCommitted = FALSE,
                                    ![c].err = extractError(st)]
                /\ store' = clearBoard(store, c, sid)
                /\ gameStatus' = [gameStatus EXCEPT ![c].commit_board = NoStatus]
                /\ UNCHANGED gameNet
           ELSE IF u.commitPolls + 1 >= CommitPollAttempts
           THEN /\ ui' = [ui EXCEPT ![c].commitPc = "idle", ![c].isCommitting = FALSE,
                                    ![c].commitPolls = 0, ![c].boardCommitted = FALSE,
                                    ![c].err = "ConfirmationTimeout"]
                /\ store' = clearBoard(store, c, sid)
                /\ gameNet' = Orphaned(gameNet, c, {"commit_board"})
                /\ gameStatus' = [gameStatus EXCEPT ![c].commit_board = NoStatus]
           ELSE /\ ui' = [ui EXCEPT ![c].commitPolls = @ + 1]
                /\ UNCHANGED <<gameNet, gameStatus, store>>
        /\ UNCHANGED games
        /\ UNCHANGED lobbyVars

\* a click on an unrevealed tile of the attack grid
selectTile(c, t) ==
    LET u == ui[c]
    IN  /\ u.screen = "game"
        /\ u.gamePhase = "play"
        /\ isMyAttackTurn(u.myPlayerNum, u.gameState)
        /\ t \notin RevealedIndexes(oppRevealedTiles(u.myPlayerNum, u.gameState))
        /\ u.selectedAttackTile # t
        /\ ui' = [ui EXCEPT ![c].selectedAttackTile = t]
        /\ UNCHANGED <<games, gameNet, gameStatus, store>>
        /\ UNCHANGED lobbyVars

\* handleAttack up to the return of attack's send, under runAction: a click
\* while the lock is held or the component is busy does nothing
handleAttack(c) ==
    LET u == ui[c]
        r == attack(c, u.sessionId, BrowserAddr(c), u.selectedAttackTile, games)
    IN  /\ u.screen = "game"
        /\ u.gamePhase = "play"
        /\ isMyAttackTurn(u.myPlayerNum, u.gameState)
        /\ u.selectedAttackTile # -1
        /\ ~u.loading
        /\ IF runActionBlocked(u)
           THEN UNCHANGED <<ui, gameNet, gameStatus>>
           ELSE IF r.err # ""
           THEN /\ ui' = [ui EXCEPT ![c].err = Surfaced(r)]
                /\ UNCHANGED <<gameNet, gameStatus>>
           ELSE /\ ui' = [ui EXCEPT ![c].actionLock = TRUE, ![c].err = "",
                                    ![c].loading = TRUE, ![c].attackPc = "sent"]
                /\ gameNet' = gameNet \cup r.sent
                /\ gameStatus' = [gameStatus EXCEPT ![c].attack =
                                    [status |-> "PENDING", reason |-> "",
                                     session_id |-> u.sessionId]]
        /\ UNCHANGED <<games, store>>
        /\ UNCHANGED lobbyVars

\* attack returns once the send has resolved: FAILED is thrown with the
\* extracted reason; the finally blocks clear loading and the lock
handleAttack_result(c) ==
    LET u == ui[c]
        st == gameStatus[c].attack
    IN  /\ u.attackPc = "sent"
        /\ st.status \in {"SUCCESS", "FAILED"}
        /\ ui' = IF st.status = "FAILED"
                 THEN [ui EXCEPT ![c].attackPc = "idle", ![c].loading = FALSE,
                                 ![c].actionLock = FALSE, ![c].err = extractError(st)]
                 ELSE [ui EXCEPT ![c].attackPc = "idle", ![c].loading = FALSE,
                                 ![c].actionLock = FALSE, ![c].selectedAttackTile = -1]
        /\ gameStatus' = [gameStatus EXCEPT ![c].attack = NoStatus]
        /\ UNCHANGED <<games, gameNet, store>>
        /\ UNCHANGED lobbyVars

\* variant: without a saved secret the defence goes on with the empty grid
currentBoardData_fallback(u) ==
    IF u.boardData.exists THEN u.boardData
    ELSE [exists |-> TRUE, tiles |-> EmptyBoard, salt |-> 0, commitment |-> NoHash]

\* currentBoardData: the memoised loadBoard(sessionId, myAddress), null when
\* nothing was found
currentBoardData(u) == u.boardData

\* handleRespondToAttack up to the return of respondToAttack's send, under
\* runAction.  The board secret is the memoised currentBoardData.
handleRespondToAttack(c) ==
    LET u == ui[c]
        boardData == currentBoardData(u)
        pendingTile == u.gameState.pending_attack_tile
        tileType == boardData.tiles[pendingTile + 1]
        proof == generateTileProof(variant, boardData.tiles, boardData.salt,
                                   boardData.commitment, pendingTile, tileType, ProofBytes)
        r == respondToAttack(variant, c, u.sessionId, BrowserAddr(c), tileType, proof, games)
    IN  /\ u.screen = "game"
        /\ u.gamePhase = "play"
        /\ isMyDefenseTurn(u.myPlayerNum, u.gameState)
        /\ ~u.isResponding
        /\ IF runActionBlocked(u)
           THEN UNCHANGED <<ui, gameNet, gameStatus>>
           ELSE IF ~boardData.exists
           THEN /\ ui' = [ui EXCEPT ![c].err = "BoardSecretMissing"]
                /\ UNCHANGED <<gameNet, gameStatus>>
           ELSE IF ~proof.ok
           THEN /\ ui' = [ui EXCEPT ![c].err = proof.err]
                /\ UNCHANGED <<gameNet, gameStatus>>
           ELSE IF r.err # ""
           THEN /\ ui' = [ui EXCEPT ![c].err = Surfaced(r)]
                /\ UNCHANGED <<gameNet, gameStatus>>
           ELSE /\ ui' = [ui EXCEPT ![c].actionLock = TRUE, ![c].err = "",
                                    ![c].isResponding = TRUE, ![c].respondPc = "sent"]
                /\ gameNet' = gameNet \cup r.sent
                /\ gameStatus' = [gameStatus EXCEPT ![c].respond_to_attack =
                                    [status |-> "PENDING", reason |-> "",
                                     session_id |-> u.sessionId]]
        /\ UNCHANGED <<games, store>>
        /\ UNCHANGED lobbyVars

handleRespondToAttack_result(c) ==
    LET u == ui[c]
        st == gameStatus[c].respond_to_attack
    IN  /\ u.respondPc = "sent"
        /\ st.status \in {"SUCCESS", "FAILED"}
        /\ ui' = IF st.status = "FAILED"
                 THEN [ui EXCEPT ![c].respondPc = "idle", ![c].isResponding = FALSE,
                                 ![c].actionLock = FALSE, ![c].err = extractError(st)]
                 ELSE [ui EXCEPT ![c].respondPc = "idle", ![c].isResponding = FALSE,
                                 ![c].actionLock = FALSE]
        /\ gameStatus' = [gameStatus EXCEPT ![c].respond_to_attack = NoStatus]
        /\ UNCHANGED <<games, gameNet, store>>
        /\ UNCHANGED lobbyVars

\* handlePlayAgain (button of the complete phase): back to the lobby with the
\* lock and the busy flags reset
handlePlayAgain(c) ==
    LET u == ui[c]
    IN  /\ u.screen = "game"
        /\ u.gamePhase = "complete"
        /\ ui' = [ui EXCEPT ![c] = [u EXCEPT !.actionLock = FALSE, !.screen = "lobby",
                                             !.sessionId = 0, !.myPlayerNum = 0,
                                             !.gameState = NoGame, !.gamePhase = "commit",
                                             !.boardCommitted = FALSE,
                                             !.selectedAttackTile = -1,
                                             !.loading = FALSE, !.isCommitting = FALSE,
                                             !.isResponding = FALSE, !.boardData = NoSecret,
                                             !.err = ""]]
        /\ UNCHANGED <<games, gameNet, gameStatus, store>>
        /\ UNCHANGED lobbyVars

\* the page is reloaded on the game screen while no call is running:
\* component state starts over, localStorage stays
reloadPage(c) ==
    /\ ui[c].screen = "game"
    /\ ui[c].commitPc = "idle" /\ ui[c].attackPc = "idle" /\ ui[c].respondPc = "idle"
    /\ ui' = [ui EXCEPT ![c] = InitUi(variant)]
    /\ gameNet' = Orphaned(gameNet, c, GameMethods)
    /\ gameStatus' = [gameStatus EXCEPT ![c] = [k \in GameMethods |-> NoStatus]]
    /\ UNCHANGED <<games, store>>
    /\ UNCHANGED lobbyVars

\* handleJoinOrLoad with a session id typed in: the session is read and the
\* connected wallet enters as the player it is in that session
handleLoad(c, sid, readOk) ==
    LET u == ui[c]
        game == getGame(sid, readOk)
        myAddress == BrowserAddr(c)
        playerNum == IF game.player1 = myAddress THEN 1 ELSE 2
    IN  /\ u.screen = "lobby"
        /\ c = 2 => joiner.pc \in {"idle", "error", "ready"}
        /\ ui' = IF ~game.exists
                 THEN ui
                 ELSE IF game.player1 # myAddress /\ game.player2 # myAddress
                 THEN ui
                 ELSE [ui EXCEPT ![c] = handleGameReady(variant, store, u, c, sid, playerNum)]
        /\ UNCHANGED <<games, gameNet, gameStatus, store>>
        /\ UNCHANGED lobbyVars

(* ------------------------------------------------------------------ *)
(* SpecPlay: from an imported handshake to the end of a game            *)
(* ------------------------------------------------------------------ *)
\* SpecPlay follows the responder's browser step by step; the initiator is
\* seen through the transactions it sends to the ledger
Me == 2
Opponent == 1
PlaySession == 1

\* the opponent sweeps the board downwards, either from tile MaxTile + 1 (a
\* tile without a special) or from tile MaxTile; its first attack decides
OpponentTops(g) ==
    LET rev == RevealedOf(g, PlayerNum(g, BrowserAddr(Me)))
        first == IF Len(rev) > 0 THEN rev[1].tile_index
                 ELSE IF g.has_pending_attack /\ g.current_turn = Opponent
                      THEN g.pending_attack_tile
                 ELSE -1
    IN  IF first = -1 THEN {MaxTile, MaxTile + 1}
        ELSE IF first = MaxTile + 1 THEN {MaxTile + 1}
        ELSE {MaxTile}

OpponentNextTile(g, top) ==
    LET done == RevealedIndexes(RevealedOf(g, PlayerNum(g, BrowserAddr(Me))))
        left == {t \in 0..top : t \notin done}
    IN  IF left = {} THEN 0 ELSE CHOOSE t \in left : \A x \in left : x <= t

\* what the opponent may send on session g: its board commitment, an attack
\* on a tile, the proof for the attacked tile of its board, or a response
\* whose proof does not verify
OpponentTxs(g) ==
    LET addr == BrowserAddr(Opponent)
        mine == IF PlayerNum(g, addr) = 1 THEN g.player1_commitment ELSE g.player2_commitment
        known == Len(mine.tiles) = NumTiles /\ g.pending_attack_tile \in Tiles
        actual == IF known THEN mine.tiles[g.pending_attack_tile + 1] ELSE 0
        tx(kind, hash, tile, type, proof) ==
            [GameTx(kind, Opponent, PlaySession, addr, hash, tile, type, proof)
                EXCEPT !.orphan = TRUE]
    IN  {tx("commit_board", computeBoardHash(LaidBoard(Opponent), 1), 0, 0, NoProof)}
        \cup {tx("attack", NoHash, OpponentNextTile(g, top), 0, NoProof) :
                 top \in OpponentTops(g)}
        \cup {tx("respond_to_attack", NoHash, 0, actual,
                 generateTileProof(variant, mine.tiles, mine.salt, mine, g.pending_attack_tile,
                                   actual, ProofBytes)) :
                 x \in {y \in {1} : known}}
        \cup {tx("respond_to_attack", NoHash, 0, (actual + 1) % 3, NoProof)}

\* the opponent sends a transaction; it has one in flight at a time.  A
\* commit or an attack is sent when its simulation passes, an attack also a
\* second time while the first is pending; a response is sent when one is
\* due, whether or not its proof verifies
opponentSend(tx) ==
    /\ games[PlaySession].exists
    /\ \A x \in gameNet : x.from # Opponent
    /\ tx \in OpponentTxs(games[PlaySession])
    /\ GameTxCheck(games[PlaySession], tx) \in
          (IF tx.kind = "respond_to_attack" THEN {"", "InvalidProof"}
           ELSE IF tx.kind = "attack" /\ games[PlaySession].current_turn = Opponent
                THEN {"", "NotYourTurn"}
           ELSE {""})
    /\ gameNet' = gameNet \cup {tx}
    /\ UNCHANGED <<games, ui, gameStatus, store>>
    /\ UNCHANGED lobbyVars

\* the record the browser keeps for the session on screen
savedBoard(c) ==
    IF ui[c].sessionId \in SessionIds THEN store[c][ui[c].sessionId] ELSE NoSecret

\* generateSalt: a random salt.  Salts are only ever compared, so which new
\* value is drawn is immaterial and the least one is taken; a draw repeats
\* the salt of the saved record only when Salts holds no other value
generateSalt(saved) ==
    LET other == {s \in Salts : ~(saved.exists /\ saved.salt = s)}
    IN  IF other = {} THEN Salts ELSE {CHOOSE s \in other : \A x \in other : s <= x}

NoGames == [s \in SessionIds |-> NoGame]
PlayPrepared ==
    prepareStartGame(PlaySession, "GA", Placeholder, FixedWager, FixedWager, 0, NoGames)
PlayImported == importAndSignAuthEntry(PlayPrepared.value, "GB", FixedWager, 0, NoGames)

\* the initiator has shared its artifact and waits; the responder's lobby has
\* just imported it (second build of the front end)
InitPlay ==
    /\ ledgerSeq = 0
    /\ games = NoGames
    /\ openedVia = [s \in SessionIds |-> ""]
    /\ artifact = PlayPrepared.value
    /\ intent = [s \in SessionIds |->
                   IF s = PlaySession
                   THEN [exists |-> TRUE, player1 |-> "GA", w1 |-> FixedWager]
                   ELSE NoIntent]
    /\ creator = [pc |-> "waiting", addr |-> "GA", sid |-> PlaySession]
    /\ joiner = [NoJoiner EXCEPT !.pc = "imported", !.addr = "GB", !.w2 = FixedWager,
                                 !.xdr = PlayPrepared.value, !.tx = PlayImported.value,
                                 !.sid = PlaySession]
    /\ openNet = {}
    /\ openStatus = [join |-> NoStatus, quick |-> NoStatus]
    /\ lastCall = [creator |-> [name |-> "prepareStartGame", done |-> TRUE, ok |-> TRUE,
                                err |-> "", net |-> PlayPrepared.net, sub |-> 0,
                                self |-> FALSE, expired |-> FALSE, fresh |-> TRUE, entries |-> <<>>],
                   joiner |-> [name |-> "importAndSignAuthEntry", done |-> TRUE, ok |-> TRUE,
                               err |-> "", net |-> PlayImported.net, sub |-> 0,
                               self |-> FALSE, expired |-> FALSE, fresh |-> TRUE, entries |-> <<>>],
                   quick |-> NoCall]
    /\ variant = "PoisonGameLobby"
    /\ ui = [c \in Browsers |-> InitUi(variant)]
    /\ gameNet = {}
    /\ gameStatus = [c \in Browsers |-> [k \in GameMethods |-> NoStatus]]
    /\ store = [c \in Browsers |-> [s \in SessionIds |-> NoSecret]]
    /\ read = NoRead
    /\ picked = NoPick
    /\ timers = NoTimers
    /\ zk = NoZk
    /\ editor = NoEditor

NextPlay ==
    \/ finalizeStartGame_send
    \/ \E tx \in openNet : LedgerApplyOpen(tx)
    \/ \E thrown \in BOOLEAN : finalizeStartGame_result(thrown)
    \/ \E readOk \in BOOLEAN : handleJoin_poll(readOk)
    \/ \E tx \in OpponentTxs(games[PlaySession]) : opponentSend(tx)
    \/ \E tx \in gameNet : LedgerApplyGame(tx)
    \/ \E readOk \in BOOLEAN : poll(Me, readOk)
    \/ \E salt \in generateSalt(savedBoard(Me)), board \in BoardInputs(Me) :
          handleCommitBoard(Me, board, salt)
    \/ handleCommitBoard_poll(Me)
    \/ \E t \in ClickTiles : selectTile(Me, t)
    \/ handleAttack(Me)
    \/ handleAttack_result(Me)
    \/ handleRespondToAttack(Me)
    \/ handleRespondToAttack_result(Me)
    \/ handlePlayAgain(Me)
    \/ reloadPage(Me)
    \/ \E sid \in SessionIds, readOk \in BOOLEAN : handleLoad(Me, sid, readOk)

SpecPlay == InitPlay /\ [][NextPlay]_vars

(* ------------------------------------------------------------------ *)
(* SpecStore: the game in a browser whose storage may refuse a record   *)
(* ------------------------------------------------------------------ *)
\* as SpecPlay, but localStorage.setItem may throw when the board is saved
NextStore ==
    \/ finalizeStartGame_send
    \/ \E tx \in openNet : LedgerApplyOpen(tx)
    \/ \E thrown \in BOOLEAN : finalizeStartGame_result(thrown)
    \/ \E readOk \in BOOLEAN : handleJoin_poll(readOk)
    \/ \E tx \in OpponentTxs(games[PlaySession]) : opponentSend(tx)
    \/ \E tx \in gameNet : LedgerApplyGame(tx)
    \/ \E readOk \in BOOLEAN : poll(Me, readOk)
    \/ \E salt \in generateSalt(savedBoard(Me)), storageOk \in BOOLEAN :
          handleCommitBoard_storage(Me, LaidBoard(Me), salt, storageOk)
    \/ handleCommitBoard_poll(Me)
    \/ \E t \in ClickTiles : selectTile(Me, t)
    \/ handleAttack(Me)
    \/ handleAttack_result(Me)
    \/ handleRespondToAttack(Me)
    \/ handleRespondToAttack_result(Me)
    \/ handlePlayAgain(Me)
    \/ reloadPage(Me)
    \/ \E sid \in SessionIds, readOk \in BOOLEAN : handleLoad(Me, sid, readOk)

SpecStore == InitPlay /\ [][NextStore]_vars

(* ------------------------------------------------------------------ *)
(* SpecView: the game screen of PoisonGameGame.tsx and its reads        *)
(* ------------------------------------------------------------------ *)
\* boardCommitted as its effect derives it from the observed session: false
\* when nothing is observed or the wallet is neither player
boardCommittedFor(userAddress, gameState) ==
    IF ~gameState.exists THEN FALSE
    ELSE IF userAddress = gameState.player1 THEN gameState.player1_committed
    ELSE IF userAddress = gameState.player2 THEN gameState.player2_committed
    ELSE FALSE

\* loadGameState of PoisonGameGame.tsx with the effects that follow it: the
\* result of getGame replaces gameState even when it is null, the phase
\* follows a session that was read, boardCommitted is derived anew, and the
\* saved board is loaded again when the phase shown changes
loadGameState_view(st, u, c, game) ==
    LET phase == IF game.exists THEN gamePhaseFor(game) ELSE u.gamePhase
    IN  [u EXCEPT !.gameState = game,
                  !.gamePhase = phase,
                  !.boardCommitted = boardCommittedFor(BrowserAddr(c), game),
                  !.boardData = IF phase # u.gamePhase /\ phase \in {"commit", "play"}
                                THEN loadBoard(st, c, u.sessionId)
                                ELSE @]

\* one run of loadGameState from the interval of the game screen, which is
\* set while screen is 'game' and the phase is not 'create'
loadGameState(c, rpc) ==
    LET u == ui[c]
        r == getGame_call(u.sessionId, rpc, games)
    IN  /\ variant = "GameLobby"
        /\ u.screen = "game"
        /\ u.gamePhase # "create"
        /\ ui' = [ui EXCEPT ![c] = loadGameState_view(store, u, c, r.value)]
        /\ read' = [called |-> TRUE, sid |-> u.sessionId, rpc |-> rpc, raised |-> r.raised,
                    value |-> r.value]
        /\ UNCHANGED <<ledgerSeq, games, openedVia, artifact, intent, creator, joiner,
                       openNet, openStatus, lastCall, variant, picked, timers, zk, editor,
                       gameNet, gameStatus, store>>

\* handleCommitBoard of PoisonGameGame.tsx up to the return of commitBoard's
\* send.  The button is disabled while the board is invalid, a commit is
\* running or boardCommitted; the secret is saved and kept as savedBoardData
\* before the call, and stays when the call fails.
handleCommitBoard_game(c, board, salt) ==
    LET u == ui[c]
        commitment == computeBoardHash(board, salt)
        r == commitBoard(c, u.sessionId, BrowserAddr(c), commitment, games)
        saved == saveBoard(store, c, u.sessionId, board, salt, commitment)
    IN  /\ variant = "GameLobby"
        /\ u.screen = "game"
        /\ u.gamePhase = "commit"
        /\ ~u.boardCommitted
        /\ ~u.isCommitting
        /\ boardValid(board)
        /\ store' = saved
        /\ IF r.err # ""
           THEN /\ ui' = [ui EXCEPT ![c].boardCommitted = FALSE, ![c].err = Surfaced(r),
                                    ![c].boardData = loadBoard(saved, c, u.sessionId)]
                /\ UNCHANGED <<gameNet, gameStatus>>
           ELSE /\ ui' = [ui EXCEPT ![c].isCommitting = TRUE,
                                    ![c].commitPc = "sent", ![c].commitPolls = 0,
                                    ![c].boardData = loadBoard(saved, c, u.sessionId)]
                /\ gameNet' = gameNet \cup r.sent
                /\ gameStatus' = [gameStatus EXCEPT ![c].commit_board =
                                    [status |-> "PENDING", reason |-> "",
                                     session_id |-> u.sessionId]]
        /\ UNCHANGED games
        /\ UNCHANGED lobbyVars

\* commitBoard: one getTransaction read of its loop, and the end of
\* handleCommitBoard when the loop ends: after a confirmed commit
\* boardCommitted is set and loadGameState runs; a failed or unconfirmed
\* commit shows its error and leaves the saved secret
handleCommitBoard_game_poll(c, rpc) ==
    LET u == ui[c]
        st == gameStatus[c].commit_board
        r == getGame_call(u.sessionId, rpc, games)
        done == [u EXCEPT !.commitPc = "idle", !.isCommitting = FALSE, !.commitPolls = 0]
    IN  /\ variant = "GameLobby"
        /\ u.commitPc = "sent"
        /\ IF st.status = "SUCCESS"
           THEN /\ ui' = [ui EXCEPT ![c] = loadGameState_view(store, done, c, r.value)]
                /\ read' = [called |-> TRUE, sid |-> u.sessionId, rpc |-> rpc,
                            raised |-> r.raised, value |-> r.value]
                /\ gameStatus' = [gameStatus EXCEPT ![c].commit_board = NoStatus]
                /\ UNCHANGED gameNet
           ELSE IF st.status = "FAILED"
           THEN /\ ui' = [ui EXCEPT ![c] = [done EXCEPT !.boardCommitted = FALSE,
                                                        !.err = extractError(st)]]
                /\ gameStatus' = [gameStatus EXCEPT ![c].commit_board = NoStatus]
                /\ UNCHANGED <<gameNet, read>>
           ELSE IF u.commitPolls + 1 >= CommitPollAttempts
           THEN /\ ui' = [ui EXCEPT ![c] = [done EXCEPT !.boardCommitted = FALSE,
                                                        !.err = "ConfirmationTimeout"]]
                /\ gameNet' = Orphaned(gameNet, c, {"commit_board"})
                /\ gameStatus' = [gameStatus EXCEPT ![c].commit_board = NoStatus]
                /\ UNCHANGED read
           ELSE /\ ui' = [ui EXCEPT ![c].commitPolls = @ + 1]
                /\ UNCHANGED <<gameNet, gameStatus, read>>
        /\ UNCHANGED <<ledgerSeq, games, openedVia, artifact, intent, creator, joiner,
                       openNet, openStatus, lastCall, variant, picked, timers, zk, editor,
                       store>>

InitView ==
    /\ InitOpen
    /\ variant = "GameLobby"

NextView ==
    \/ \E qsId \in SessionIds : handleQuickStart(qsId)
    \/ \E tx \in openNet : LedgerApplyOpen(tx)
    \/ \E thrown \in BOOLEAN : handleQuickStart_result(thrown)
    \/ \E readOk \in BOOLEAN : handleQuickStart_poll(readOk)
    \/ \E tx \in OpponentTxs(games[PlaySession]) : opponentSend(tx)
    \/ \E tx \in gameNet : LedgerApplyGame(tx)
    \/ \E rpc \in RpcOutcomes : loadGameState(Me, rpc)
    \/ \E salt \in generateSalt(savedBoard(Me)) :
          handleCommitBoard_game(Me, LaidBoard(Me), salt)
    \/ \E rpc \in RpcOutcomes : handleCommitBoard_game_poll(Me, rpc)

SpecView == InitView /\ [][NextView]_vars

(* ------------------------------------------------------------------ *)
(* SpecRace: reads of the game screen that are answered late            *)
(* ------------------------------------------------------------------ *)
\* poll of the game screen up to its await: getGame is called and the ledger
\* answers with the session as it is now; the answer is on its way while the
\* interval fires again.  One late answer is followed at a time.
poll_request(c, rpc) ==
    LET u == ui[c]
        r == getGame_call(u.sessionId, rpc, games)
    IN  /\ u.screen = "game"
        /\ u.sessionId # 0
        /\ ~read.called
        /\ read' = [called |-> TRUE, sid |-> u.sessionId, rpc |-> rpc, raised |-> r.raised,
                    value |-> r.value]
        /\ UNCHANGED <<ledgerSeq, games, openedVia, artifact, intent, creator, joiner,
                       openNet, openStatus, lastCall, variant, picked, timers, zk, editor,
                       ui, gameNet, gameStatus, store>>

\* poll after its await: the answer arrives and, when it holds a session, is
\* put on screen as it is; nothing compares it with what is shown
poll_response(c) ==
    LET u == ui[c]
        game == read.value
    IN  /\ read.called
        /\ u.screen = "game"
        /\ u.sessionId = read.sid
        /\ ui' = IF ~game.exists THEN ui
                 ELSE [ui EXCEPT ![c].gameState = game,
                                 ![c].gamePhase = gamePhaseFor(game),
                                 ![c].boardCommitted =
                                     boardCommittedFor(BrowserAddr(c), game)]
        /\ read' = NoRead
        /\ UNCHANGED <<ledgerSeq, games, openedVia, artifact, intent, creator, joiner,
                       openNet, openStatus, lastCall, variant, picked, timers, zk, editor,
                       gameNet, gameStatus, store>>

NextRace ==
    \/ finalizeStartGame_send
    \/ \E tx \in openNet : LedgerApplyOpen(tx)
    \/ \E thrown \in BOOLEAN : finalizeStartGame_result(thrown)
    \/ \E readOk \in BOOLEAN : handleJoin_poll(readOk)
    \/ \E tx \in OpponentTxs(games[PlaySession]) : opponentSend(tx)
    \/ \E tx \in gameNet : LedgerApplyGame(tx)
    \/ poll(Me, TRUE)
    \/ \E rpc \in RpcOutcomes : poll_request(Me, rpc)
    \/ poll_response(Me)
    \/ \E salt \in generateSalt(savedBoard(Me)) : handleCommitBoard(Me, LaidBoard(Me), salt)
    \/ handleCommitBoard_poll(Me)

SpecRace == InitPlay /\ [][NextRace]_vars

(* ------------------------------------------------------------------ *)
(* SpecWait: the initiator's wait with the callbacks split at the await *)
(* ------------------------------------------------------------------ *)
\* how many getGame calls of the interval's callbacks are followed at once
MaxInflight == 2

RequestIds == 1..MaxInflight

\* the callback of a live interval up to its await: getGame(sid) is called
\* and the ledger answers with the session as it is now
waitPoll_request(iv, rpc) ==
    LET game == getGame_call(iv.sid, rpc, games).value
        free == {k \in RequestIds : \A q \in timers.inflight : q.id # k}
    IN  /\ iv \in timers.live
        /\ free # {}
        /\ Len(timers.ready) + Cardinality(timers.inflight) < MaxInflight
        /\ timers' = [timers EXCEPT !.inflight =
                          @ \cup {[id |-> CHOOSE k \in free : \A x \in free : k <= x,
                                   wait |-> iv, found |-> game.exists]}]
        /\ UNCHANGED <<ledgerSeq, games, openedVia, artifact, intent, creator, joiner, openNet,
                       openStatus, lastCall, variant, read, picked, zk, editor, ui, gameNet,
                       gameStatus, store>>

\* the callback after its await.  When the session was found it clears the
\* interval pollRef holds now, sets pollRef to null and calls onGameReady with
\* the session id of its own wait; it does not look whether that wait is
\* still the current one or whether onGameReady was called for it before
waitPoll_response(q) ==
    /\ q \in timers.inflight
    /\ IF q.found
       THEN /\ timers' = [timers EXCEPT
                             !.inflight = @ \ {q},
                             !.live = @ \ {timers.pollRef},
                             !.pollRef = NoInterval,
                             !.mounted = FALSE,
                             !.ready = Append(@, [wait |-> q.wait,
                                                  live |-> q.wait \in timers.live,
                                                  mounted |-> timers.mounted,
                                                  pc |-> creator.pc,
                                                  sid |-> creator.sid])]
            /\ creator' = [creator EXCEPT !.pc = "ready"]
            /\ ui' = [ui EXCEPT ![1] = handleGameReady(variant, store, ui[1], 1, q.wait.sid, 1)]
       ELSE /\ timers' = [timers EXCEPT !.inflight = @ \ {q}]
            /\ UNCHANGED <<creator, ui>>
    /\ UNCHANGED <<ledgerSeq, games, openedVia, artifact, intent, joiner, openNet,
                   openStatus, lastCall, variant, read, picked, zk, editor, gameNet, gameStatus,
                   store>>

NextWait ==
    \/ \E sid \in SessionIds : createAndWait(sid)
    \/ \E iv \in timers.live, rpc \in RpcOutcomes : waitPoll_request(iv, rpc)
    \/ \E q \in timers.inflight : waitPoll_response(q)
    \/ startOver
    \/ unmountLobby
    \/ opponentJoins

SpecWait == InitOpen /\ [][NextWait]_vars

(* ------------------------------------------------------------------ *)
(* SpecBoard: the board editor of the commit phase                      *)
(* ------------------------------------------------------------------ *)
\* SpecBoard follows the grid of the responder's browser from the moment the
\* game screen is entered: tool selection, tile clicks, reloads, the board
\* read back from localStorage, and the lock-board button
Tools == {1, 2}

\* a sequence of n tiles that starts with head and is Normal after it
TilesOf(n, head) == [i \in 1..n |-> IF i <= Len(head) THEN head[i] ELSE 0]

\* loadBoard returns what JSON.parse finds under the key, unvalidated: the
\* tiles of an earlier lock, or tiles that were not written by saveBoard
\* (too many Poison, two Shields, a value that is no tile type, a grid that
\* is one tile short or one tile long)
StoredTiles ==
    {TilesOf(NumTiles, <<1, 1, 2>>), TilesOf(NumTiles, <<1, 1, 1>>),
     TilesOf(NumTiles, <<2, 2, 1>>), TilesOf(NumTiles, <<3, 1, 1>>),
     TilesOf(NumTiles, <<3, 1, 2>>), TilesOf(NumTiles - 1, <<1, 1, 2>>),
     TilesOf(NumTiles + 1, <<1, 1, 2>>)}

StoredRecords ==
    {NoSecret} \cup
    {[exists |-> TRUE, tiles |-> t, salt |-> s, commitment |-> computeBoardHash(t, s)] :
        t \in StoredTiles, s \in {1}}

\* the load-board effect of the game screen (deps: screen, sessionId,
\* myAddress): the stored tiles, or fifteen Normal tiles
loadBoardEffect(st, c, sid) ==
    LET loaded == loadBoard(st, c, sid)
    IN  IF loaded.exists THEN loaded.tiles ELSE EmptyBoard

\* the editor is on screen: commit phase, board not yet seen as committed
EditorShown(c) ==
    /\ ui[c].screen = "game"
    /\ ui[c].gamePhase = "commit"
    /\ ~ui[c].boardCommitted

boardFrame == <<ledgerSeq, games, openedVia, artifact, intent, creator, joiner, openNet,
                openStatus, lastCall, variant, read, picked, timers, zk, gameNet, gameStatus, store>>

\* a tool button: setActiveTool(t)
setActiveTool(t) ==
    /\ EditorShown(Me)
    /\ editor' = [editor EXCEPT !.activeTool = t]
    /\ UNCHANGED ui
    /\ UNCHANGED boardFrame

\* onClick of a tile of the grid: the tile loses the active tool's type if it
\* has it; otherwise it takes it unless 2 Poison (1 Shield) are placed already
tileClick(myBoard, activeTool, idx) ==
    LET poisonCount == CountTiles(myBoard, 1)
        shieldCount == CountTiles(myBoard, 2)
    IN  IF myBoard[idx + 1] = activeTool THEN [myBoard EXCEPT ![idx + 1] = 0]
        ELSE IF activeTool = 1 /\ poisonCount >= 2 /\ myBoard[idx + 1] # 1 THEN myBoard
        ELSE IF activeTool = 2 /\ shieldCount >= 1 /\ myBoard[idx + 1] # 2 THEN myBoard
        ELSE [myBoard EXCEPT ![idx + 1] = activeTool]

onTileClick(idx) ==
    /\ EditorShown(Me)
    /\ idx + 1 \in DOMAIN editor.myBoard
    /\ editor' = [editor EXCEPT !.myBoard = tileClick(editor.myBoard, editor.activeTool, idx)]
    /\ UNCHANGED ui
    /\ UNCHANGED boardFrame

\* the page is reloaded while the editor is mounted: the component and its
\* editor start over, localStorage stays
reloadEditor(c) ==
    /\ ui[c].screen = "game"
    /\ ui[c].commitPc = "idle" /\ ui[c].attackPc = "idle" /\ ui[c].respondPc = "idle"
    /\ ui' = [ui EXCEPT ![c] = InitUi(variant)]
    /\ editor' = NoEditor
    /\ gameNet' = Orphaned(gameNet, c, GameMethods)
    /\ gameStatus' = [gameStatus EXCEPT ![c] = [k \in GameMethods |-> NoStatus]]
    /\ UNCHANGED <<ledgerSeq, games, openedVia, artifact, intent, creator, joiner, openNet,
                   openStatus, lastCall, variant, read, picked, timers, zk, store>>

\* handleJoinOrLoad with the session id typed in, and the load-board effect
\* that runs once the game screen is entered
loadGame(c, sid, readOk) ==
    LET u == ui[c]
        game == getGame(sid, readOk)
        myAddress == BrowserAddr(c)
        playerNum == IF game.player1 = myAddress THEN 1 ELSE 2
        enters == game.exists /\ (game.player1 = myAddress \/ game.player2 = myAddress)
    IN  /\ u.screen = "lobby"
        /\ ui' = IF enters
                 THEN [ui EXCEPT ![c] = handleGameReady(variant, store, u, c, sid, playerNum)]
                 ELSE ui
        /\ editor' = IF enters
                     THEN [editor EXCEPT !.myBoard = loadBoardEffect(store, c, sid)]
                     ELSE editor
        /\ UNCHANGED boardFrame

\* the lock-board button with the grid of the render it belongs to.  SpecBoard
\* follows the player who presses it once the network has drained: what an
\* earlier press left in flight has been applied by then
lockBoard(salt) ==
    /\ gameNet = {}
    /\ handleCommitBoard(Me, editor.myBoard, salt)

\* the session is open on the ledger, the responder's lobby has seen it and
\* shows the game screen; the load-board effect has run on what localStorage
\* held for the session
InitBoard ==
    /\ ledgerSeq = 0
    /\ games = [NoGames EXCEPT ![PlaySession] = NewGame(PlayImported.value)]
    /\ openedVia = [s \in SessionIds |-> IF s = PlaySession THEN "finalizeStartGame" ELSE ""]
    /\ artifact = PlayPrepared.value
    /\ intent = [s \in SessionIds |->
                   IF s = PlaySession
                   THEN [exists |-> TRUE, player1 |-> "GA", w1 |-> FixedWager]
                   ELSE NoIntent]
    /\ creator = [pc |-> "waiting", addr |-> "GA", sid |-> PlaySession]
    /\ joiner = [NoJoiner EXCEPT !.pc = "ready", !.addr = "GB", !.w2 = FixedWager,
                                 !.xdr = PlayPrepared.value, !.tx = PlayImported.value,
                                 !.sid = PlaySession, !.readySid = PlaySession]
    /\ openNet = {}
    /\ openStatus = [join |-> [status |-> "SUCCESS", reason |-> "", session_id |-> PlaySession],
                     quick |-> NoStatus]
    /\ lastCall = [creator |-> [name |-> "prepareStartGame", done |-> TRUE, ok |-> TRUE,
                                err |-> "", net |-> PlayPrepared.net, sub |-> 0,
                                self |-> FALSE, expired |-> FALSE, fresh |-> TRUE, entries |-> <<>>],
                   joiner |-> [name |-> "finalizeStartGame", done |-> TRUE, ok |-> TRUE,
                               err |-> "", net |-> 4, sub |-> 1,
                               self |-> FALSE, expired |-> FALSE, fresh |-> FALSE, entries |-> <<>>],
                   quick |-> NoCall]
    /\ variant = "PoisonGameLobby"
    /\ gameNet = {}
    /\ gameStatus = [c \in Browsers |-> [k \in GameMethods |-> NoStatus]]
    /\ \E rec \in StoredRecords :
          store = [c \in Browsers |-> [s \in SessionIds |->
                     IF c = Me /\ s = PlaySession THEN rec ELSE NoSecret]]
    /\ ui = [c \in Browsers |->
               IF c = Me
               THEN handleGameReady(variant, store, InitUi(variant), Me, PlaySession, 2)
               ELSE InitUi(variant)]
    /\ editor = [NoEditor EXCEPT !.myBoard = loadBoardEffect(store, Me, PlaySession)]
    /\ zk = NoZk
    /\ timers = NoTimers
    /\ picked = NoPick
    /\ read = NoRead

NextBoard ==
    \/ \E t \in Tools : setActiveTool(t)
    \/ \E idx \in ClickTiles : onTileClick(idx)
    \/ reloadEditor(Me)
    \/ \E readOk \in BOOLEAN : loadGame(Me, PlaySession, readOk)
    \/ \E salt \in generateSalt(savedBoard(Me)) : lockBoard(salt)
    \/ handleCommitBoard_poll(Me)
    \/ \E tx \in gameNet : LedgerApplyGame(tx)
    \/ \E readOk \in BOOLEAN : poll(Me, readOk)

SpecBoard == InitBoard /\ [][NextBoard]_vars

(* ------------------------------------------------------------------ *)
(* SpecZk: the ZK engine and the services, for any artifact             *)
(* ------------------------------------------------------------------ *)
\* SpecZk follows the engine singleton of the responder's browser and the
\* calls made on it while a session is played: init from several callers,
\* generateTileProof with any arguments followed by respondToAttack as in
\* handleRespondToAttack, and commitBoard with a hash of any length

\* variant: init does not look at the promise of a run under way
init_noMemo(e) ==
    IF e.initialized THEN [engine |-> e, promise |-> "resolved"]
    ELSE [engine |-> [e EXCEPT !.initializing = "pending", !.runs = @ + 1],
          promise |-> "pending"]

\* init: nothing to do when _initialized; the promise of the run under way
\* (or of the run that failed) when there is one; otherwise _doInit is
\* started and its promise kept in _initializing.  No await lies between the
\* two tests and the assignment
init(e) ==
    IF e.initialized THEN [engine |-> e, promise |-> "resolved"]
    ELSE IF e.initializing # "null" THEN [engine |-> e, promise |-> e.initializing]
    ELSE [engine |-> [e EXCEPT !.initializing = "pending", !.runs = @ + 1],
          promise |-> "pending"]

\* what a caller that awaits a promise is left with
Awaited(promise) ==
    CASE promise = "resolved" -> "ok"
      [] promise = "rejected" -> "failed"
      [] OTHER -> "waiting"

zkFrame == <<ledgerSeq, games, openedVia, artifact, intent, creator, joiner, openNet,
             openStatus, lastCall, variant, read, picked, timers, editor, ui, gameNet, gameStatus, store>>

\* a call of computeBoardHash or generateTileProof begins: `await this.init()`
init_call(k) ==
    LET r == init(zk)
    IN  /\ zk.callers[k] = "idle"
        /\ zk' = [r.engine EXCEPT !.callers[k] = Awaited(r.promise)]
        /\ UNCHANGED zkFrame

\* _doInit ends: circuit, Noir, backend and Barretenberg are there and
\* _initialized is set, or a step threw, _error is set and the promise is
\* rejected; every caller that awaits the promise goes on
doInit_settle(ok) ==
    /\ zk.initializing = "pending"
    /\ zk' = [zk EXCEPT !.initialized = ok,
                        !.initializing = IF ok THEN "resolved" ELSE "rejected",
                        !.error = IF ok THEN "" ELSE "InitFailed",
                        !.callers = [k \in Callers |->
                                       IF zk.callers[k] = "waiting"
                                       THEN (IF ok THEN "ok" ELSE "failed")
                                       ELSE zk.callers[k]]]
    /\ UNCHANGED zkFrame

\* what a caller may hand to generateTileProof: the board it committed, its
\* commitment, a tile index inside or outside the board, any tile type; and what the backend may return for a proof: a blob
\* of ProofBytes bytes, or of another size when its version is not the
\* contract's
ProofTiles == {LaidBoard(Me)}
ProofIndexes == {-1} \cup ClickTiles \cup {NumTiles - 1, NumTiles}
TileTypes == {0, 1, 2}
ProofSizes == {ProofBytes, ProofBytes - 1}
\* what a caller may hand to commitBoard: the hash of its board, as it is or
\* with a byte missing or added
HashLengths == {HashBytes - 1, HashBytes, HashBytes + 1}

\* the try block of handleRespondToAttack from the call of generateTileProof
\* on, for any arguments: the call ends with the error of init when init
\* failed, with the error of a check, or with a proof; only a proof is
\* handed to respondToAttack
proveAndRespond(tiles, tileIndex, tileType, proofSize) ==
    LET k == Prover
        salt == 1
        commitment == computeBoardHash(LaidBoard(Me), salt)
        proof == IF zk.callers[k] = "failed" THEN ProofThrown(zk.error, FALSE)
                 ELSE generateTileProof(variant, tiles, salt, commitment, tileIndex,
                                        tileType, proofSize)
        r == respondToAttack(variant, Me, PlaySession, BrowserAddr(Me), tileType, proof, games)
        args == [made |-> TRUE, tiles |-> tiles, tileIndex |-> tileIndex,
                 tileType |-> tileType]
    IN  /\ zk.callers[k] \in {"ok", "failed"}
        /\ IF proof.ok
           THEN /\ zk' = [zk EXCEPT !.callers[k] = "idle", !.call = args, !.proof = proof,
                                    !.respond = [called |-> TRUE, bytes |-> proof.bytes,
                                                 err |-> r.err, reason |-> r.reason,
                                                 sent |-> r.sent # {}]]
                /\ gameNet' = gameNet \cup r.sent
           ELSE /\ zk' = [zk EXCEPT !.callers[k] = "idle", !.call = args, !.proof = proof,
                                    !.respond = NoOutcome]
                /\ UNCHANGED gameNet
        /\ UNCHANGED <<ledgerSeq, games, openedVia, artifact, intent, creator, joiner, openNet,
                       openStatus, lastCall, variant, read, picked, timers, editor, ui, gameStatus, store>>

\* the try block of handleCommitBoard from the call of computeBoardHash on,
\* for a hash of any length: the call ends with the error of init when init
\* failed; otherwise its result is handed to commitBoard
commitWith(k, bytes) ==
    LET hash == [computeBoardHash(LaidBoard(Me), 1) EXCEPT !.bytes = bytes]
        r == commitBoard(Me, PlaySession, BrowserAddr(Me), hash, games)
    IN  /\ k # Prover
        /\ zk.callers[k] \in {"ok", "failed"}
        /\ IF zk.callers[k] = "ok"
           THEN /\ zk' = [zk EXCEPT !.callers[k] = "idle",
                                    !.commit = [called |-> TRUE, bytes |-> bytes,
                                                err |-> r.err, reason |-> r.reason,
                                                sent |-> r.sent # {}]]
                /\ gameNet' = gameNet \cup r.sent
           ELSE /\ zk' = [zk EXCEPT !.callers[k] = "idle", !.commit = NoOutcome]
                /\ UNCHANGED gameNet
        /\ UNCHANGED <<ledgerSeq, games, openedVia, artifact, intent, creator, joiner, openNet,
                       openStatus, lastCall, variant, read, picked, timers, editor, ui, gameStatus, store>>

\* the session is open on the ledger and the responder's browser shows the
\* game screen of either build; the engine has not been used yet
InitZk ==
    /\ ledgerSeq = 0
    /\ games = [NoGames EXCEPT ![PlaySession] = NewGame(PlayImported.value)]
    /\ openedVia = [s \in SessionIds |-> IF s = PlaySession THEN "finalizeStartGame" ELSE ""]
    /\ artifact = PlayPrepared.value
    /\ intent = [s \in SessionIds |->
                   IF s = PlaySession
                   THEN [exists |-> TRUE, player1 |-> "GA", w1 |-> FixedWager]
                   ELSE NoIntent]
    /\ creator = [pc |-> "waiting", addr |-> "GA", sid |-> PlaySession]
    /\ joiner = [NoJoiner EXCEPT !.pc = "ready", !.addr = "GB", !.w2 = FixedWager,
                                 !.xdr = PlayPrepared.value, !.tx = PlayImported.value,
                                 !.sid = PlaySession, !.readySid = PlaySession]
    /\ openNet = {}
    /\ openStatus = [join |-> [status |-> "SUCCESS", reason |-> "", session_id |-> PlaySession],
                     quick |-> NoStatus]
    /\ lastCall = [creator |-> [name |-> "prepareStartGame", done |-> TRUE, ok |-> TRUE,
                                err |-> "", net |-> PlayPrepared.net, sub |-> 0,
                                self |-> FALSE, expired |-> FALSE, fresh |-> TRUE, entries |-> <<>>],
                   joiner |-> [name |-> "finalizeStartGame", done |-> TRUE, ok |-> TRUE,
                               err |-> "", net |-> 4, sub |-> 1,
                               self |-> FALSE, expired |-> FALSE, fresh |-> FALSE, entries |-> <<>>],
                   quick |-> NoCall]
    /\ variant \in LobbyVariants
    /\ gameNet = {}
    /\ gameStatus = [c \in Browsers |-> [k \in GameMethods |-> NoStatus]]
    /\ store = [c \in Browsers |-> [s \in SessionIds |-> NoSecret]]
    /\ read = NoRead
    /\ picked = NoPick
    /\ timers = NoTimers
    /\ ui = [c \in Browsers |->
               IF c = Me
               THEN handleGameReady(variant, store, InitUi(variant), Me, PlaySession, 2)
               ELSE InitUi(variant)]
    /\ editor = NoEditor
    /\ zk = NoZk

NextZk ==
    \/ \E k \in Callers : init_call(k)
    \/ \E ok \in BOOLEAN : doInit_settle(ok)
    \/ \E tiles \in ProofTiles, tileIndex \in ProofIndexes,
          tileType \in TileTypes, proofSize \in ProofSizes :
          proveAndRespond(tiles, tileIndex, tileType, proofSize)
    \/ \E k \in Callers, bytes \in HashLengths : commitWith(k, bytes)
    \/ \E tx \in OpponentTxs(games[PlaySession]) : opponentSend(tx)
    \/ \E tx \in gameNet : LedgerApplyGame(tx)

SpecZk == InitZk /\ [][NextZk]_vars

(* ------------------------------------------------------------------ *)
(* Properties of the handshake (SpecOpen)                               *)
(* ------------------------------------------------------------------ *)
\* the responder's finalizeStartGame has returned and the ledger confirmed
\* its submission
FinalizeConfirmed ==
    /\ lastCall.joiner.name = "finalizeStartGame"
    /\ lastCall.joiner.done
    /\ openStatus.join.status = "SUCCESS"

\* C1: when the responder imports the artifact that prepareStartGame made for
\* (session, player 1, W1), gives its own wager W2, and its finalizeStartGame
\* is confirmed, the ledger holds that session with player1_points = W1,
\* player2_points = W2, the two addresses, and phase WaitingForCommits.
C1_HandshakeRoundTrip ==
    FinalizeConfirmed =>
        LET sid == joiner.xdr.session_id
            g == games[sid]
        IN  /\ intent[sid].exists
            /\ g.exists
            /\ g.player1 = intent[sid].player1
            /\ g.player2 = joiner.addr
            /\ g.player1_points = intent[sid].w1
            /\ g.player2_points = joiner.w2
            /\ g.phase = WaitingForCommits

\* a confirmed round trip with different wagers on the two sides
C1_Witness ==
    /\ FinalizeConfirmed
    /\ games[joiner.xdr.session_id].exists
    /\ joiner.w2 # intent[joiner.xdr.session_id].w1

\* C5: the ledger's sessions change only in the step that confirms a
\* transaction sent by finalizeStartGame -- never in a step of
\* prepareStartGame or importAndSignAuthEntry, which send nothing -- and a
\* confirmed session-open submission always leaves its session on the ledger.
C5_LockedIffConfirmed ==
    /\ [][ /\ (games' # games =>
                 /\ lastCall' = lastCall
                 /\ \E tx \in openNet :
                       /\ tx \notin openNet'
                       /\ tx.via = "finalizeStartGame"
                       /\ games' = [games EXCEPT ![tx.session_id] = NewGame(tx)]
                       /\ openStatus'[tx.by].status = "SUCCESS")
           /\ (lastCall'.creator # lastCall.creator
                  /\ lastCall'.creator.name = "prepareStartGame"
                  => games' = games /\ openNet' = openNet /\ lastCall'.creator.sub = 0)
           /\ (lastCall'.joiner # lastCall.joiner
                  /\ lastCall'.joiner.name = "importAndSignAuthEntry"
                  => games' = games /\ openNet' = openNet /\ lastCall'.joiner.sub = 0)
         ]_vars
    /\ [](\A s \in SessionIds : games[s].exists => openedVia[s] = "finalizeStartGame")
    /\ [](\A k \in {"join", "quick"} :
            openStatus[k].status = "SUCCESS" => games[openStatus[k].session_id].exists)

\* a session exists after both prepareStartGame and importAndSignAuthEntry ran
C5_Witness ==
    /\ \E s \in SessionIds : games[s].exists /\ intent[s].exists
    /\ lastCall.creator.name = "prepareStartGame"
    /\ lastCall.joiner.name = "finalizeStartGame"

\* C8: importAndSignAuthEntry called with the artifact's own initiator address
\* as player 2 fails with the self-play error, having made no network call
\* and sent nothing.
C8_SelfPlayBeforeNetwork ==
    (lastCall.joiner.name = "importAndSignAuthEntry" /\ lastCall.joiner.self) =>
        /\ ~lastCall.joiner.ok
        /\ lastCall.joiner.err = "SelfPlay"
        /\ lastCall.joiner.net = 0
        /\ lastCall.joiner.sub = 0

\* the service was called with the initiator's own address
C8_Witness ==
    /\ lastCall.joiner.name = "importAndSignAuthEntry"
    /\ lastCall.joiner.self
    /\ joiner.pc = "error"

C10_RejectionSurfaced ==
    (lastCall.joiner.name = "finalizeStartGame" /\ lastCall.joiner.done
        /\ openStatus.join.status = "FAILED") =>
        /\ ~lastCall.joiner.ok
        /\ joiner.pc = "error"
        /\ joiner.err.reason = openStatus.join.reason

\* C11 (as stated): the wait for a session-open confirmation is bounded, the
\* lobby goes on to the game only after a confirmation of its submission was
\* observed.
C11_ConfirmationOrTimeout ==
    /\ joiner.polls < JoinPollAttempts
    /\ joiner.pc = "ready" => openStatus.join.status = "SUCCESS"

(* ------------------------------------------------------------------ *)
(* Properties of the game (SpecPlay)                                    *)
(* ------------------------------------------------------------------ *)
\* this step is the network applying tx (accepting or rejecting it)
Applied(tx) ==
    /\ tx \in gameNet
    /\ gameNet' = gameNet \ {tx}
    /\ ui' = ui

AddrOf(g, n) == IF n = 1 THEN g.player1 ELSE g.player2

\* the sub-state the client shows for player number n on observed state g
SubState(n, g) ==
    IF isMyAttackTurn(n, g) THEN "MyTurnToAttack"
    ELSE IF isMyDefenseTurn(n, g) THEN "MyTurnToDefend"
    ELSE "Waiting"

ObservedStates ==
    {ui[c].gameState : c \in Browsers} \cup {games[s] : s \in SessionIds}

\* C3: for every observed session state and every myPlayerNum in {1, 2}, the
\* sub-state is MyTurnToAttack exactly when no attack is pending and
\* currentTurn = me, MyTurnToDefend exactly when an attack is pending and
\* currentTurn # me, Waiting otherwise -- with the locked player number of
\* the second component and with the derived one of PoisonGameGame.tsx -- and
\* two states that agree on (currentTurn, hasPendingAttack) get the same
\* sub-state.
C3_SubStateByTurn ==
    \A g \in ObservedStates : g.exists =>
        \A n \in {1, 2} :
            /\ SubState(n, g) = "MyTurnToAttack" <=>
                   (~g.has_pending_attack /\ g.current_turn = n)
            /\ SubState(n, g) = "MyTurnToDefend" <=>
                   (g.has_pending_attack /\ g.current_turn # n)
            /\ SubState(n, g) = "Waiting" <=>
                   ~((~g.has_pending_attack /\ g.current_turn = n)
                     \/ (g.has_pending_attack /\ g.current_turn # n))
            /\ isMyDefenseTurn(n, g) <=> (g.has_pending_attack /\ g.current_turn # n)
            /\ SubState(myPlayerNumDerived(AddrOf(g, n), g), g) = SubState(n, g)
            /\ \A k \in ObservedStates :
                   (k.exists /\ k.current_turn = g.current_turn
                       /\ k.has_pending_attack = g.has_pending_attack)
                   => SubState(n, k) = SubState(n, g)

\* the responder's client has observed an attack on its board
C3_Witness ==
    /\ ui[Me].gameState.exists
    /\ ui[Me].myPlayerNum = 2
    /\ ui[Me].gameState.has_pending_attack
    /\ SubState(ui[Me].myPlayerNum, ui[Me].gameState) = "MyTurnToDefend"
    /\ SubState(1, ui[Me].gameState) = "Waiting"

\* C4: hasPendingAttack of a session goes from false to true only in a step
\* that applies an accepted attack, and from true to false only in a step that
\* applies an accepted respond whose proof verifies; a rejected transaction, a
\* commit, and every step of a client (reads included) leave it as it is.
C4_PendingBracketsAttack ==
    [][ /\ \A s \in SessionIds :
             LET g == games[s]
                 h == games'[s]
             IN  /\ (~g.has_pending_attack /\ h.has_pending_attack) =>
                       \E tx \in gameNet :
                          /\ Applied(tx) /\ tx.session_id = s /\ tx.kind = "attack"
                          /\ AttackCheck(g, tx.player, tx.tile_index) = ""
                 /\ (g.has_pending_attack /\ ~h.has_pending_attack) =>
                       \E tx \in gameNet :
                          /\ Applied(tx) /\ tx.session_id = s
                          /\ tx.kind = "respond_to_attack"
                          /\ VerifyProof(g, tx.player, tx.tile_type, tx.proof)
                          /\ RespondCheck(g, tx.player, tx.tile_type, tx.proof) = ""
                 /\ \A tx \in gameNet :
                       (Applied(tx) /\ tx.session_id = s
                           /\ (tx.kind = "commit_board" \/ GameTxCheck(g, tx) # ""))
                       => h.has_pending_attack = g.has_pending_attack
        /\ ui' # ui => \A s \in SessionIds :
                          games'[s].has_pending_attack = games[s].has_pending_attack
      ]_vars

\* a second attack is pending after a first attack / respond pair
C4_Witness ==
    LET g == games[PlaySession]
    IN  /\ g.has_pending_attack
        /\ Len(g.p1_revealed) + Len(g.p2_revealed) >= 1

\* position of browser c's call of a game method
PcOf(u, kind) ==
    IF kind = "commit_board" THEN u.commitPc
    ELSE IF kind = "attack" THEN u.attackPc
    ELSE u.respondPc

\* transactions of browser c that enter the network in this step
NewGameTxs(c) ==
    {tx \in gameNet' : /\ tx \notin gameNet
                       /\ tx.from = c
                       /\ [tx EXCEPT !.orphan = FALSE] \notin gameNet}

\* C6: a call of finalizeStartGame, commitBoard, attack or respondToAttack
\* sends at most one transaction: a transaction of the client enters the
\* network only in the step in which a call starts, one per call, and no later
\* step of the call (status reads, a failed result, exhausted polling) sends
\* another.
C6_AtMostOnceSubmission ==
    /\ [][ /\ Cardinality(NewGameTxs(Me)) <= 1
           /\ \A tx \in NewGameTxs(Me) :
                 PcOf(ui[Me], tx.kind) = "idle" /\ PcOf(ui'[Me], tx.kind) = "sent"
           /\ Cardinality(openNet' \ openNet) <= 1
           /\ \A tx \in openNet' \ openNet :
                 /\ tx.via = "finalizeStartGame"
                 /\ joiner.pc = "imported" /\ joiner'.pc = "sent"
         ]_vars
    /\ [](lastCall.joiner.sub <= 1)

\* commitBoard gave up after its last status read and its transaction is
\* still in the network
C6_Witness ==
    /\ ui[Me].commitPc = "idle"
    /\ \E tx \in gameNet : tx.from = Me /\ tx.kind = "commit_board" /\ tx.orphan
    /\ lastCall.joiner.name = "finalizeStartGame"
    /\ lastCall.joiner.sub = 1

\* submissions of browser c that are in flight
InFlight(c) ==
    {k \in GameMethods : PcOf(ui[c], k) = "sent"}
    \cup {k \in {"join"} : c = 2 /\ joiner.pc = "sent"}
    \cup {k \in {"quick"} : c = 2 /\ ui[c].qsPc = "sent"}

\* C7 (as stated): on one client at most one wager-bearing submission is in
\* flight at any time.
C7_ActionLock ==
    \A c \in Browsers : Cardinality(InFlight(c)) <= 1

\* the session shows the player with address a committed
Committed(g, a) ==
    \/ (g.exists /\ a = g.player1 /\ g.player1_committed)
    \/ (g.exists /\ a = g.player2 /\ g.player2_committed)

CommitmentOf(g, a) == IF a = g.player1 THEN g.player1_commitment ELSE g.player2_commitment

\* C12: once a session shows a player committed, every further commitBoard
\* call for that player fails with AlreadyCommitted and sends nothing, a
\* commit transaction of that player that still reaches the ledger is rejected
\* with AlreadyCommitted, and the stored commitment of that player never
\* changes again.
C12_CommitIdempotent ==
    /\ [](\A s \in SessionIds : \A a \in Addresses : Committed(games[s], a) =>
            \A c \in Browsers : \A board \in BoardInputs(c) : \A salt \in Salts :
                LET r == commitBoard(c, s, a, computeBoardHash(board, salt), games)
                IN  r.err # "" /\ Surfaced(r) = "AlreadyCommitted" /\ r.sent = {})
    /\ [](\A tx \in gameNet :
            (tx.kind = "commit_board" /\ Committed(games[tx.session_id], tx.player))
            => GameTxCheck(games[tx.session_id], tx) = "AlreadyCommitted")
    /\ [][ /\ \A s \in SessionIds : \A a \in Addresses : Committed(games[s], a) =>
                 /\ Committed(games'[s], a)
                 /\ CommitmentOf(games'[s], a) = CommitmentOf(games[s], a)
           /\ \A tx \in NewGameTxs(Me) :
                 tx.kind = "commit_board" => ~Committed(games[tx.session_id], tx.player)
         ]_vars

\* the responder's client tried to commit again after the ledger had its
\* commitment, and was told so
C12_Witness ==
    /\ Committed(games[PlaySession], BrowserAddr(Me))
    /\ ui[Me].err = "AlreadyCommitted"
    /\ ui[Me].commitPc = "idle"

\* C13 (as stated): whenever the ledger shows the player committed with
\* commitment C, the BoardSecret kept for (session, player) exists and carries
\* commitment C.
C13_BoardSecretKept ==
    \A s \in SessionIds :
        Committed(games[s], BrowserAddr(Me)) =>
            /\ store[Me][s].exists
            /\ store[Me][s].commitment = CommitmentOf(games[s], BrowserAddr(Me))

\* C14: a defence for which the client finds no BoardSecret ends with the
\* BoardSecretMissing error (and no other) shown, nothing sent, no call left running and the
\* ledger untouched (the pending attack stays outstanding); a respond
\* transaction is sent only from a BoardSecret the client holds.
C14_BoardSecretMissing ==
    /\ [][ /\ (ui'[Me].err = "BoardSecretMissing" /\ ui[Me].err # "BoardSecretMissing") =>
                 /\ ~ui[Me].boardData.exists
                 /\ isMyDefenseTurn(ui[Me].myPlayerNum, ui[Me].gameState)
                 /\ gameNet' = gameNet
                 /\ games' = games
                 /\ ui'[Me].respondPc = "idle"
                 /\ ~ui'[Me].actionLock /\ ~ui'[Me].isResponding
           /\ (/\ ui'[Me].err # ui[Me].err /\ ui'[Me].err # ""
                /\ ~ui[Me].boardData.exists
                /\ ui[Me].gamePhase = "play"
                /\ isMyDefenseTurn(ui[Me].myPlayerNum, ui[Me].gameState)
                /\ \A k \in GameMethods : PcOf(ui[Me], k) = "idle")
              => ui'[Me].err = "BoardSecretMissing"
           /\ \A tx \in NewGameTxs(Me) :
                 tx.kind = "respond_to_attack" =>
                     /\ ui[Me].boardData.exists
                     /\ tx.proof.commitment = ui[Me].boardData.commitment
         ]_vars
    /\ [](ui[Me].err = "BoardSecretMissing" =>
            /\ ui[Me].respondPc = "idle"
            /\ \A tx \in gameNet : ~(tx.from = Me /\ tx.kind = "respond_to_attack"
                                       /\ ~tx.orphan))

\* the client was asked to defend, found no BoardSecret and said so, and the
\* attack is still pending on the ledger
C14_Witness ==
    /\ ui[Me].err = "BoardSecretMissing"
    /\ ~ui[Me].boardData.exists
    /\ games[PlaySession].has_pending_attack
    /\ games[PlaySession].current_turn # Me

\* player b has uncovered 2 Poison and 1 Shield on the other player's board
WonBy(g, b) ==
    /\ CountType(RevealedOf(g, 3 - b), 1) = 2
    /\ CountType(RevealedOf(g, 3 - b), 2) = 1

\* C15: a session is Finished exactly when one of the players has uncovered
\* the 2 Poison and the 1 Shield of the other player's board, and its winner
\* is that player; every revealed entry of the responder's board carries the
\* type the committed board has at that index; the client shows the end of
\* the game only for an observed Finished session, with that winner.
C15_WinDetection ==
    /\ \A s \in SessionIds :
          LET g == games[s]
          IN  g.exists =>
                /\ g.phase = Finished <=> (WonBy(g, 1) \/ WonBy(g, 2))
                /\ \A b \in {1, 2} : WonBy(g, b) => (g.phase = Finished /\ g.winner = b)
                /\ g.phase # Finished => g.winner = 0
                /\ \A n \in {1, 2} :
                      LET hash == IF n = 1 THEN g.player1_commitment ELSE g.player2_commitment
                          rev == RevealedOf(g, n)
                      IN  \A i \in 1..Len(rev) :
                             rev[i].tile_type = hash.tiles[rev[i].tile_index + 1]
    /\ ui[Me].gamePhase = "complete" =>
          /\ ui[Me].gameState.phase = Finished
          /\ games[ui[Me].sessionId].phase = Finished
          /\ ui[Me].gameState.winner = games[ui[Me].sessionId].winner

\* the responder uncovered the three specials, interleaved with the
\* opponent's attacks on its own board, and its client shows the game won
C15_Witness ==
    LET g == games[PlaySession]
    IN  /\ g.phase = Finished
        /\ g.winner = Me
        /\ Len(g.p1_revealed) >= 3
        /\ Len(g.p2_revealed) >= 2
        /\ ui[Me].gamePhase = "complete"
        /\ ui[Me].gameState.winner = ui[Me].myPlayerNum

\* the opponent uncovered the three specials of the responder's board first
\* and the responder's client shows the game lost
C15_OpponentWins ==
    /\ games[PlaySession].phase = Finished
    /\ games[PlaySession].winner = Opponent
    /\ WonBy(games[PlaySession], Opponent)
    /\ ~WonBy(games[PlaySession], Me)
    /\ ui[Me].gamePhase = "complete"
    /\ ui[Me].gameState.winner = Opponent

\* C16: every attack the client sends goes out while its sub-state is
\* MyTurnToAttack, in the session it last observed and in the session the
\* ledger holds, and for the selected tile, which is in the revealed list of
\* the opponent's board in neither of them; a selection kept from an earlier
\* turn whose tile has been revealed since sends nothing.
C16_AttackOnlyLegal ==
    [][\A tx \in NewGameTxs(Me) :
          tx.kind = "attack" =>
             LET u == ui[Me]
                 g == games[tx.session_id]
             IN  /\ SubState(u.myPlayerNum, u.gameState) = "MyTurnToAttack"
                 /\ SubState(u.myPlayerNum, g) = "MyTurnToAttack"
                 /\ g.phase = Playing
                 /\ tx.tile_index = u.selectedAttackTile
                 /\ tx.tile_index \notin RevealedIndexes(oppRevealedTiles(u.myPlayerNum, u.gameState))
                 /\ tx.tile_index \notin RevealedIndexes(oppRevealedTiles(u.myPlayerNum, g))
      ]_vars

\* the selection kept from an earlier turn is a tile revealed since; the
\* attempt to attack it was refused and nothing of it is on the way
C16_Witness ==
    /\ ui[Me].selectedAttackTile \in
          RevealedIndexes(oppRevealedTiles(ui[Me].myPlayerNum, games[PlaySession]))
    /\ ui[Me].err = "TileAlreadyRevealed"
    /\ ui[Me].attackPc = "idle"
    /\ \A tx \in gameNet : ~(tx.from = Me /\ tx.kind = "attack")

AttackErrors == {"NotYourTurn", "InvalidTileIndex", "TileAlreadyRevealed", "WrongPhase"}

\* player n of session g may not attack tile t now
IllegalAttack(g, n, t) ==
    \/ g.phase # Playing
    \/ g.has_pending_attack
    \/ g.current_turn # n
    \/ t < 0 \/ t > 14
    \/ t \in RevealedIndexes(RevealedOf(g, 3 - n))

C18_RevealedAppendOnly ==
    /\ [](\A s \in SessionIds : \A n \in {1, 2} :
            LET rev == RevealedOf(games[s], n)
            IN  \A i, j \in 1..Len(rev) : rev[i].tile_index = rev[j].tile_index => i = j)
    /\ [][\A s \in SessionIds :
            /\ \A n \in {1, 2} :
                  LET old == RevealedOf(games[s], n)
                      new == RevealedOf(games'[s], n)
                  IN  \/ new = old
                      \/ /\ Len(new) = Len(old) + 1
                         /\ SubSeq(new, 1, Len(old)) = old
                         /\ games[s].has_pending_attack
                         /\ games[s].current_turn = 3 - n
                         /\ new[Len(new)].tile_index = games[s].pending_attack_tile
                         /\ ~games'[s].has_pending_attack
            /\ \/ RevealedOf(games'[s], 1) = RevealedOf(games[s], 1)
               \/ RevealedOf(games'[s], 2) = RevealedOf(games[s], 2)
         ]_vars

\* both boards have several tiles revealed, and an attack on one of the
\* revealed tiles was tried and refused
C18_Witness ==
    /\ Len(games[PlaySession].p1_revealed) >= 2
    /\ Len(games[PlaySession].p2_revealed) >= 2
    /\ ui[Me].err = "TileAlreadyRevealed"
    /\ ui[Me].selectedAttackTile \in RevealedIndexes(games[PlaySession].p1_revealed)



\* C19: the phase of a session never goes back and moves one phase at a
\* time, WaitingForCommits to Playing to Finished, over all commits, attacks,
\* responses and refused actions; a session, once there, stays; and the
\* snapshots one mounted game component observes never go back either.
C19_PhaseMonotonic ==
    /\ [](\A s \in SessionIds : games[s].phase \in {WaitingForCommits, Playing, Finished})
    /\ [][ /\ \A s \in SessionIds : games[s].exists =>
                 /\ games'[s].exists
                 /\ games'[s].phase >= games[s].phase
                 /\ games'[s].phase <= games[s].phase + 1
                 /\ (games'[s].phase = Playing /\ games[s].phase = WaitingForCommits) =>
                       (games'[s].player1_committed /\ games'[s].player2_committed)
                 /\ (games'[s].phase = Finished /\ games[s].phase = Playing) =>
                       games'[s].winner \in {1, 2}
           /\ (/\ ui[Me].gameState.exists /\ ui'[Me].gameState.exists
                /\ ui'[Me].sessionId = ui[Me].sessionId)
              => ui'[Me].gameState.phase >= ui[Me].gameState.phase
         ]_vars

\* the session went through its phases to Finished, and an action sent
\* afterwards was refused and left it there
C19_Witness ==
    /\ games[PlaySession].phase = Finished
    /\ ui[Me].err = "WrongPhase"
    /\ ui[Me].gameState.phase = Playing

\* C20: the client shows the play phase only while the snapshot it last
\* fetched has phase Playing, and a session is past WaitingForCommits only
\* with both committed flags set, in the snapshot and on the ledger; with
\* its own commitment confirmed and the other one missing the client stays
\* in the commit phase.
C20_PlayOnlyObserved ==
    /\ \A s \in SessionIds :
          LET g == games[s]
          IN  g.exists =>
                (g.phase # WaitingForCommits <=> (g.player1_committed /\ g.player2_committed))
    /\ ui[Me].gamePhase = "play" =>
          /\ ui[Me].screen = "game"
          /\ ui[Me].gameState.exists
          /\ ui[Me].gameState.phase = Playing
          /\ ui[Me].gameState.player1_committed /\ ui[Me].gameState.player2_committed
          /\ games[ui[Me].sessionId].player1_committed
          /\ games[ui[Me].sessionId].player2_committed
          /\ games[ui[Me].sessionId].phase # WaitingForCommits
    /\ (ui[Me].screen = "game" /\ ui[Me].sessionId \in SessionIds
          /\ games[ui[Me].sessionId].phase = WaitingForCommits)
       => ui[Me].gamePhase = "commit"

\* the client went from commit to play on a fetched snapshot with phase
\* Playing, before any tile was attacked
C20_Witness ==
    /\ ui[Me].gamePhase = "play"
    /\ ui[Me].gameState.phase = Playing
    /\ ui[Me].boardCommitted
    /\ store[Me][PlaySession].exists
    /\ Len(ui[Me].gameState.p1_revealed) = 0 /\ Len(ui[Me].gameState.p2_revealed) = 0

\* the client's own commitment is confirmed and observed, the opponent's is
\* missing, and the client stays in the commit phase
C20_CommitAloneStays ==
    /\ ui[Me].gamePhase = "commit"
    /\ ui[Me].boardCommitted
    /\ ui[Me].commitPc = "idle"
    /\ games[PlaySession].player2_committed
    /\ ~games[PlaySession].player1_committed

(* ------------------------------------------------------------------ *)
(* Properties of the board editor (SpecBoard)                           *)
(* ------------------------------------------------------------------ *)
\* a board as the rules want it: 15 slots, each Normal, Poison or Shield,
\* exactly 2 Poison and exactly 1 Shield
WellFormedBoard(tiles) ==
    /\ Len(tiles) = NumTiles
    /\ \A i \in 1..Len(tiles) : tiles[i] \in {0, 1, 2}
    /\ Cardinality({i \in 1..Len(tiles) : tiles[i] = 1}) = 2
    /\ Cardinality({i \in 1..Len(tiles) : tiles[i] = 2}) = 1

\* the constraint an error names is violated by the board
Violates(tiles, error) ==
    CASE error = "NeedTiles" -> Len(tiles) # NumTiles
      [] error = "InvalidTileValues" -> \E i \in 1..Len(tiles) : tiles[i] \notin {0, 1, 2}
      [] error = "NeedPoison" -> Cardinality({i \in 1..Len(tiles) : tiles[i] = 1}) # 2
      [] error = "NeedShield" -> Cardinality({i \in 1..Len(tiles) : tiles[i] = 2}) # 1
      [] OTHER -> FALSE

\* the count that offends the constraint
OffendingCount(tiles, error) ==
    CASE error = "NeedTiles" -> Len(tiles)
      [] error = "InvalidTileValues" ->
            Cardinality({i \in 1..Len(tiles) : tiles[i] \notin {0, 1, 2}})
      [] error = "NeedPoison" -> Cardinality({i \in 1..Len(tiles) : tiles[i] = 1})
      [] error = "NeedShield" -> Cardinality({i \in 1..Len(tiles) : tiles[i] = 2})
      [] OTHER -> 0

C21_NoCount ==
    LET r == validateBoard(editor.myBoard)
    IN  /\ EditorShown(Me)
        /\ r.error = "InvalidTileValues"
        /\ ~r.counted

\* C22: whatever was edited, loaded from localStorage and clicked, every
\* commitment the responder's browser has submitted, and the one the ledger
\* holds for it, is the hash of a board of 15 tiles with exactly 2 Poison and
\* 1 Shield; the record saved with the submission holds such a board too
C22_OnlyValidBoardsCommitted ==
    /\ \A tx \in gameNet :
          tx.kind = "commit_board" /\ tx.from = Me => WellFormedBoard(tx.board_hash.tiles)
    /\ games[PlaySession].player2_committed =>
          WellFormedBoard(games[PlaySession].player2_commitment.tiles)
    /\ ui[Me].isCommitting => WellFormedBoard(store[Me][PlaySession].tiles)

\* localStorage held a grid with a value that is no tile type; the player
\* replaced the value with the Shield and the board is committed on the ledger
C22_Witness ==
    /\ games[PlaySession].player2_committed
    /\ games[PlaySession].player2_commitment.tiles = TilesOf(NumTiles, <<2, 1, 1>>)
    /\ editor.myBoard = TilesOf(NumTiles, <<2, 1, 1>>)

(* ------------------------------------------------------------------ *)
(* Properties of the ZK engine and the artifact lengths (SpecZk)        *)
(* ------------------------------------------------------------------ *)
\* the claimed type is not the type of the tile, or the index is no tile
BadClaim(tiles, tileIndex, tileType) ==
    \/ tileIndex < 0 \/ tileIndex > 14
    \/ tileIndex + 1 \notin DOMAIN tiles
    \/ tiles[tileIndex + 1] # tileType

\* C23: whenever generateTileProof is called with a tile index outside 0..14
\* or with a claimed type that is not the tile's type, the call ends with an
\* error before noir.execute is reached, and respondToAttack is not called
\* for it: the network holds no response that carries this claim
C23_ProofFailsLocally ==
    zk.call.made /\ BadClaim(zk.call.tiles, zk.call.tileIndex, zk.call.tileType) =>
        /\ ~zk.proof.ok
        /\ zk.proof.err # ""
        /\ ~zk.proof.executed
        /\ ~zk.respond.called
        /\ \A tx \in gameNet :
              tx.kind = "respond_to_attack" /\ tx.from = Me =>
                  ~(tx.proof.tile_index = zk.call.tileIndex /\ tx.tile_type = zk.call.tileType)

\* an attack on the responder's board is pending on the ledger, the engine is
\* initialised, and a call with a claimed type that is not the tile's has
\* ended with the mismatch error: nothing was executed, nothing was sent
C23_Witness ==
    /\ games[PlaySession].has_pending_attack
    /\ games[PlaySession].current_turn = Opponent
    /\ zk.initialized
    /\ zk.call.made /\ zk.call.tileIndex = games[PlaySession].pending_attack_tile
    /\ zk.proof.err = "TileTypeMismatch"
    /\ ~zk.proof.executed
    /\ ~zk.respond.called
    /\ \A tx \in gameNet : tx.kind # "respond_to_attack"

\* C24 as stated: commitBoard goes on only with a hash of 32 bytes and
\* respondToAttack only with a proof blob of 14592 bytes; any other length
\* ends the call with the length error before a transaction is built, and
\* nothing of another length is in the network.  Violated by the service of
\* the second build, which simulates respond_to_attack with a blob of any
\* length.
C24_LengthsChecked ==
    /\ zk.commit.called /\ zk.commit.bytes # HashBytes =>
          zk.commit.err = "BoardHashLength" /\ ~zk.commit.sent
    /\ zk.respond.called /\ zk.respond.bytes # ProofBytes =>
          zk.respond.err = "ProofLength" /\ ~zk.respond.sent
    /\ \A tx \in gameNet :
          /\ tx.kind = "commit_board" /\ tx.from = Me => tx.board_hash.bytes = HashBytes
          /\ tx.kind = "respond_to_attack" /\ tx.from = Me => tx.proof.bytes = ProofBytes

\* the part of C24 that holds in both builds: commitBoard refuses a hash that
\* has not 32 bytes before it builds anything, and no transaction of the
\* browser carries an artifact of another length than the contract expects
C24_HashLengthChecked ==
    /\ zk.commit.called /\ zk.commit.bytes # HashBytes =>
          zk.commit.err = "BoardHashLength" /\ ~zk.commit.sent
    /\ \A tx \in gameNet :
          /\ tx.kind = "commit_board" /\ tx.from = Me => tx.board_hash.bytes = HashBytes
          /\ tx.kind = "respond_to_attack" /\ tx.from = Me => tx.proof.bytes = ProofBytes

\* C30: without destroy, _doInit runs at most once whatever the number and
\* the interleaving of the init calls, and every caller is left with the
\* outcome of that run: a caller that went on has the engine initialised, a
\* caller that failed has the error of the run, a caller that waits has the
\* run under way
C30_InitOnce ==
    /\ zk.runs <= 1
    /\ \A k \in Callers :
          /\ zk.callers[k] = "ok" =>
                zk.runs = 1 /\ zk.initialized /\ zk.initializing = "resolved"
          /\ zk.callers[k] = "failed" =>
                zk.runs = 1 /\ ~zk.initialized /\ zk.initializing = "rejected" /\ zk.error # ""
          /\ zk.callers[k] = "waiting" => zk.runs = 1 /\ zk.initializing = "pending"

\* every caller called init while the run was under way, the run succeeded
\* and all of them went on
C30_Witness ==
    /\ zk.runs = 1
    /\ \A k \in Callers : zk.callers[k] = "ok"

\* the run failed: every caller, also one that called afterwards, has failed
C30_AllFailed ==
    /\ zk.runs = 1
    /\ zk.initializing = "rejected"
    /\ \A k \in Callers : zk.callers[k] = "failed"

\* C25: prepareStartGame selects the entry to sign by address equality with the
\* initiator, not by position: whatever array of authorization entries the
\* simulation returned (either order, with or without an entry that is not
\* address-based), a successful call signed the entry of that array that names
\* the initiator, for the session and the wager asked for, and the call failed
\* with NoAuthorizationFound exactly when no entry of the array names the
\* initiator.
NamesInitiator(entries) ==
    {i \in 1..Len(entries) : AddressBased(entries[i]) /\ entries[i].address = creator.addr}

C25_SelectedByAddress ==
    LET c == lastCall.creator IN
    (c.name = "prepareStartGame" /\ c.done) =>
        /\ c.ok <=> NamesInitiator(c.entries) # {}
        /\ ~c.ok => c.err = "NoAuthorizationFound"
        /\ c.ok => /\ Cardinality(NamesInitiator(c.entries)) = 1
                   /\ \E i \in NamesInitiator(c.entries) :
                         artifact = [c.entries[i] EXCEPT !.signed = TRUE,
                                                         !.expiration = artifact.expiration]
                   /\ artifact.signed
                   /\ artifact.address = creator.addr
                   /\ artifact.session_id = creator.sid

\* the initiator's entry came second, after an entry that is not address-based,
\* and it is the one that was signed
C25_Witness ==
    LET c == lastCall.creator IN
    /\ c.name = "prepareStartGame" /\ c.done /\ c.ok
    /\ Len(c.entries) = 2
    /\ ~AddressBased(c.entries[1])
    /\ artifact.signed /\ artifact.address = creator.addr

\* the initiator's entry came second, after the other party's address entry
C25_SecondOfTwo ==
    LET c == lastCall.creator IN
    /\ c.name = "prepareStartGame" /\ c.done /\ c.ok
    /\ Len(c.entries) = 2
    /\ AddressBased(c.entries[1]) /\ c.entries[1].address # creator.addr
    /\ artifact.address = creator.addr

\* no entry named the initiator and the call failed
C25_NoneFound ==
    LET c == lastCall.creator IN
    /\ c.name = "prepareStartGame" /\ c.done /\ ~c.ok
    /\ c.err = "NoAuthorizationFound"

\* C26: every poll loop started to wait for the opponent is bounded by an
\* overall timeout: no interval of the lobby is still set more than 10 minutes
\* after it was set, and a wait that the timeout ended shows the timeout error.
WaitBounded ==
    /\ \A iv \in timers.live : timers.now <= iv.start + PollTimeoutMs
    /\ creator.pc = "timedOut" => timers.error = "WaitTimeout"

C26_WaitBounded == WaitBounded

\* the second lobby alone: its waits are bounded
C26_SecondLobbyBounded == variant = "PoisonGameLobby" => WaitBounded

\* the second lobby's wait ended by its timeout, 10 minutes after its start
C26_TimedOut ==
    /\ creator.pc = "timedOut"
    /\ timers.live = {}
    /\ timers.error = "WaitTimeout"

\* a wait started after "Start Over" was ended by the timeout of the wait
\* before it, sooner than 10 minutes after its own start
C26_EndedByEarlierTimeout ==
    /\ creator.pc = "timedOut"
    /\ timers.timeouts # {}
    /\ \A d \in timers.timeouts : d > timers.now

\* C27: polling teardown: once the game screen has observed the session
\* Finished, its poll is stopped: its callback cannot run again, so no further
\* getGame is issued for that session.
ObservedFinished(c) ==
    /\ ui[c].screen = "game"
    /\ ui[c].gameState.exists
    /\ ui[c].gameState.phase = Finished

C27_NoPollAfterFinished == ObservedFinished(Me) => ~ENABLED poll(Me, TRUE)

\* the lobby's exits: once the lobby is unmounted, its wait started over, timed
\* out or answered, no interval of it is set
C27_LobbyTornDown ==
    (~timers.mounted \/ creator.pc \in {"idle", "ready", "timedOut"}) => timers.live = {}

\* the lobby was unmounted while it waited and its interval is cleared
C27_UnmountedWhileWaiting ==
    /\ ~timers.mounted
    /\ creator.pc = "waiting"
    /\ timers.live = {}

\* C28: every session id chosen by an initiator (create, quickstart, play
\* again) lies in 1..2^32-1: it is never 0 and fits an unsigned 32-bit value.
NonZeroU32(v) == InU32(v) /\ ~IsZero32(v)

C28_IdInRange == picked.pc = "done" => NonZeroU32(picked.value)

\* the ids createRandomSessionId returns are in range, with and without crypto
C28_HelperInRange ==
    (picked.pc = "done" /\ usesHelper(variant, picked.site)) => NonZeroU32(picked.value)

\* createRandomSessionId read a zero first, read again and returned 2^32 - 1
C28_RedrawnAfterZero ==
    /\ picked.pc = "done" /\ picked.crypto
    /\ picked.draws = 2
    /\ picked.value = Factor32

\* the fallback computed 0 and returned 1
C28_FallbackOne ==
    /\ picked.pc = "done" /\ ~picked.crypto /\ usesHelper(variant, picked.site)
    /\ picked.value = U32(0, 1)

\* C29: getGame is a read-only snapshot that never raises: no call raises, a
\* call for a session id the ledger does not store returns null, a call that
\* succeeds for a stored session returns that session as stored, and no call
\* changes the ledger.
Absent(sid) == sid \notin SessionIds \/ ~games[sid].exists

ReadNeverRaises ==
    read.called =>
        /\ ~read.raised
        /\ Absent(read.sid) => read.value = NoGame
        /\ read.value # NoGame => read.value = games[read.sid]
        /\ (~Absent(read.sid) /\ read.rpc = "ok") => read.value = games[read.sid]

ReadLeavesLedger == read' # read => games' = games

C29_ReadOnlySnapshot == []ReadNeverRaises /\ [][ReadLeavesLedger]_vars

\* a call for a session id the ledger does not store returned null
C29_Witness ==
    /\ read.called /\ read.rpc = "ok"
    /\ Absent(read.sid)
    /\ ~read.raised /\ read.value = NoGame

\* a request that failed for a stored session returned null
C29_FailedRead ==
    /\ read.called /\ read.rpc = "throws"
    /\ ~Absent(read.sid)
    /\ ~read.raised /\ read.value = NoGame

\* C31: commitBoard follows validate -> compute commitment -> persist -> submit:
\* whenever a commit_board transaction of the player is sent, the BoardSecret of
\* (session, player) is in the browser's storage with the commitment that is
\* sent; a record that could not be stored means nothing is sent.
CommitsSent(net) == {tx \in net : tx.kind = "commit_board" /\ tx.from = Me /\ ~tx.orphan}

SecretStoredFor(st, tx) ==
    /\ tx.session_id \in SessionIds
    /\ st[Me][tx.session_id].exists
    /\ st[Me][tx.session_id].commitment = tx.board_hash

PersistedBeforeSubmit ==
    \A tx \in CommitsSent(gameNet') \ CommitsSent(gameNet) : SecretStoredFor(store', tx)

\* C31 as a property of every step: a commitment is sent only in a step that
\* leaves the BoardSecret of (session, player) stored
C31_PersistThenSubmit == [][PersistedBeforeSubmit]_vars

\* a commitment of a valid board was sent while the browser holds no record
C31_SentWithoutSecret ==
    /\ CommitsSent(gameNet) # {}
    /\ ~savedBoard(Me).exists
    /\ ui[Me].commitPc = "sent"

\* the artifact on display is the one the latest prepareStartGame returned
PreparedArtifact ==
    /\ lastCall.creator.name = "prepareStartGame"
    /\ lastCall.creator.ok
    /\ artifact.exists

\* C32: parseAuthEntry applied to the artifact of prepareStartGame for
\* (sessionId, initiator, initiatorWager) returns exactly that session id,
\* that initiator address and that wager, wagers of 2^64 and more included.
C32_ParseRoundTrip ==
    PreparedArtifact =>
        LET parsed == parseAuthEntry(artifact)
        IN  /\ parsed.sessionId = creator.sid
            /\ parsed.player1 = creator.addr
            /\ intent[creator.sid].exists
            /\ parsed.player1Points = intent[creator.sid].w1

\* the same round trip for the wagers that fit in 64 bits
C32_Low64RoundTrip ==
    PreparedArtifact /\ intent[creator.sid].w1.hi = 0 => C32_ParseRoundTrip

\* an artifact was prepared for a wager of 2^64 or more
C32_WideWager ==
    /\ PreparedArtifact
    /\ intent[creator.sid].exists
    /\ intent[creator.sid].w1.hi > 0
    /\ parseAuthEntry(artifact).player1Points # intent[creator.sid].w1

\* an artifact was prepared for a wager below 2^64 and parsed back whole
C32_NarrowWager ==
    /\ PreparedArtifact
    /\ intent[creator.sid].exists
    /\ intent[creator.sid].w1.hi = 0
    /\ parseAuthEntry(artifact).player1Points = intent[creator.sid].w1

\* the board the player committed in the session on screen is the one whose
\* BoardSecret the browser's storage holds
CommittedBoardStored ==
    /\ ui[Me].screen = "game"
    /\ ui[Me].sessionId \in SessionIds
    /\ savedBoard(Me).exists
    /\ games[ui[Me].sessionId].exists
    /\ CommitmentOf(games[ui[Me].sessionId], BrowserAddr(Me)) = savedBoard(Me).commitment

\* C33: in the component that caches the stored board, a player who committed
\* a board on the current game screen and is attacked later in the same
\* session, with the BoardSecret still in storage, has handleRespondToAttack
\* find that BoardSecret: the board-data-missing error is not shown.
C33_DefenceFindsSecret ==
    (variant = "PoisonGameLobby" /\ CommittedBoardStored)
        => ui[Me].err # "BoardSecretMissing"

\* the defence of a committed player failed for want of board data while the
\* BoardSecret of that very commitment was in storage
C33_StoredButNotFound ==
    /\ variant = "PoisonGameLobby"
    /\ CommittedBoardStored
    /\ ui[Me].boardCommitted
    /\ ui[Me].gamePhase = "play"
    /\ isMyDefenseTurn(ui[Me].myPlayerNum, ui[Me].gameState)
    /\ ~currentBoardData(ui[Me]).exists
    /\ ui[Me].err = "BoardSecretMissing"

\* after the game screen was entered anew the cached board is the stored one
\* and the defence is sent
C33_FoundAfterRemount ==
    /\ variant = "PoisonGameLobby"
    /\ CommittedBoardStored
    /\ currentBoardData(ui[Me]) = savedBoard(Me)
    /\ ui[Me].respondPc = "sent"

\* the sub-states the two clients show on session state g: the second
\* component by the locked player number, PoisonGameGame.tsx by the number it
\* derives from the session's addresses
SubStates(g) ==
    [n \in {1, 2} |-> SubState(n, g)]

DerivedSubStates(g) ==
    [n \in {1, 2} |-> SubState(myPlayerNumDerived(AddrOf(g, n), g), g)]

ExactlyOneActs(g, sub) ==
    /\ \E n \in {1, 2} : sub[n] # "Waiting" /\ sub[3 - n] = "Waiting"
    /\ sub[g.current_turn] # "MyTurnToDefend"
    /\ sub[3 - g.current_turn] # "MyTurnToAttack"
    /\ g.has_pending_attack <=> sub[3 - g.current_turn] = "MyTurnToDefend"

\* C34: in every session state with phase Playing exactly one player is in a
\* non-Waiting sub-state: the current-turn player in MyTurnToAttack when no
\* attack is pending, the other player in MyTurnToDefend when one is; never
\* both, never neither, and no player in both sub-states at once.  It holds
\* for the ledger's states and for the state each client has on screen.
C34_ExactlyOneActs ==
    /\ \A s \in SessionIds :
          games[s].exists /\ games[s].phase = Playing =>
              /\ games[s].current_turn \in {1, 2}
              /\ ExactlyOneActs(games[s], SubStates(games[s]))
              /\ ExactlyOneActs(games[s], DerivedSubStates(games[s]))
              /\ \A n \in {1, 2} :
                    ~(isMyAttackTurn(n, games[s]) /\ isMyDefenseTurn(n, games[s]))
    /\ \A c \in {1, 2} :
          ui[c].gameState.exists /\ ui[c].gameState.phase = Playing =>
              ExactlyOneActs(ui[c].gameState, SubStates(ui[c].gameState))

\* a Playing state with an attack pending: the defender acts, the attacker waits
C34_Witness ==
    /\ games[PlaySession].exists
    /\ games[PlaySession].phase = Playing
    /\ games[PlaySession].has_pending_attack
    /\ SubState(3 - games[PlaySession].current_turn, games[PlaySession]) = "MyTurnToDefend"
    /\ SubState(games[PlaySession].current_turn, games[PlaySession]) = "Waiting"
    /\ ui[Me].gameState = games[PlaySession]

\* a Playing state with no attack pending: the current-turn player acts
C34_AttackerActs ==
    /\ games[PlaySession].exists
    /\ games[PlaySession].phase = Playing
    /\ ~games[PlaySession].has_pending_attack
    /\ SubState(games[PlaySession].current_turn, games[PlaySession]) = "MyTurnToAttack"
    /\ SubState(3 - games[PlaySession].current_turn, games[PlaySession]) = "Waiting"

\* the last read of the game screen found nothing although the session is on
\* the ledger
ReadFailed(r) ==
    /\ r.called
    /\ r.value = NoGame
    /\ ~Absent(r.sid)

ViewKept ==
    /\ ui'[Me].gameState = ui[Me].gameState
    /\ ui'[Me].gamePhase = ui[Me].gamePhase
    /\ ui'[Me].boardCommitted = ui[Me].boardCommitted

\* C35: a read that fails or finds nothing while the session exists leaves
\* the client's view untouched: gameState, the phase shown and boardCommitted
\* keep their last observed values, so a failed poll never gives a committed
\* player an editable board again.
C35_FailedReadKeepsView ==
    [][(read' # read /\ ReadFailed(read') /\ ui[Me].commitPc = "idle") => ViewKept]_vars

\* after a failed poll a player whose commitment is on the ledger, and was
\* seen there, is shown the commit phase with the board open and the lock
\* button enabled
C35_CommittedShownEditable ==
    /\ variant = "GameLobby"
    /\ ui[Me].screen = "game"
    /\ ui[Me].gamePhase = "commit"
    /\ ReadFailed(read)
    /\ read.sid = ui[Me].sessionId
    /\ Committed(games[read.sid], BrowserAddr(Me))
    /\ ~ui[Me].gameState.exists
    /\ ~ui[Me].boardCommitted
    /\ ~ui[Me].isCommitting
    /\ ENABLED (\E salt \in Salts : handleCommitBoard_game(Me, LaidBoard(Me), salt))

\* the poll of the second component takes no step on a read that found nothing
C35_SecondViewKept ==
    ~ENABLED poll(Me, FALSE)

\* the phases of the game screen in the order a session passes through them
PhaseRank(gamePhase) ==
    IF gamePhase = "complete" THEN 3
    ELSE IF gamePhase = "play" THEN 2
    ELSE IF gamePhase = "commit" THEN 1
    ELSE 0

SameSessionShown ==
    /\ ui[Me].screen = "game" /\ ui'[Me].screen = "game"
    /\ ui[Me].sessionId # 0
    /\ ui'[Me].sessionId = ui[Me].sessionId

\* C36: the phase shown never regresses within one session, also when the
\* answers to getGame are applied in another order than they were asked for:
\* gamePhase never goes from complete to play or commit, nor from play to
\* commit.
C36_PhaseNeverRegresses ==
    [][SameSessionShown => PhaseRank(ui'[Me].gamePhase) >= PhaseRank(ui[Me].gamePhase)]_vars

\* a late answer put the screen of a session in play back to the commit phase
C36_BackToCommit ==
    /\ ui[Me].screen = "game"
    /\ ui[Me].sessionId = PlaySession
    /\ games[PlaySession].exists
    /\ games[PlaySession].phase = Playing
    /\ ui[Me].gamePhase = "commit"
    /\ ui[Me].gameState.exists
    /\ ui[Me].gameState.phase = WaitingForCommits
    /\ ui[Me].boardCommitted
    /\ ~read.called
    /\ store[Me][PlaySession].exists

\* the calls of onGameReady made so far, in order
ReadyCalls == timers.ready

\* C37: for each wait the initiator's lobby started, onGameReady is called at
\* most once, and never after that wait was cancelled by Start Over, timed
\* out or the lobby was unmounted, also when getGame calls of that wait are
\* still awaited at the moment the interval is cleared.
C37_ReadyOncePerWait ==
    /\ \A i, j \in 1..Len(ReadyCalls) :
          ReadyCalls[i].wait = ReadyCalls[j].wait => i = j
    /\ \A i \in 1..Len(ReadyCalls) : ReadyCalls[i].live /\ ReadyCalls[i].mounted

\* onGameReady was called twice for one wait
C37_ReadyTwice ==
    /\ Len(ReadyCalls) = 2
    /\ ReadyCalls[1].wait = ReadyCalls[2].wait
    /\ ReadyCalls[1].live /\ ~ReadyCalls[2].live

\* onGameReady was called for a wait the initiator had cancelled with Start Over
C37_ReadyAfterStartOver ==
    /\ variant = "PoisonGameLobby"
    /\ Len(ReadyCalls) = 1
    /\ ~ReadyCalls[1].live
    /\ ReadyCalls[1].pc = "idle"
    /\ ReadyCalls[1].mounted
    /\ ui[1].screen = "game"
    /\ ui[1].sessionId = ReadyCalls[1].wait.sid

\* onGameReady was called after the lobby was unmounted while it waited
C37_ReadyAfterUnmount ==
    /\ Len(ReadyCalls) = 1
    /\ ~ReadyCalls[1].live
    /\ ~ReadyCalls[1].mounted
    /\ ReadyCalls[1].pc = "waiting"

\* the joiner's lobby has called onGameReady for the handshake it finalized
JoinerEntered ==
    /\ joiner.pc = "ready"
    /\ joiner.xdr.exists

\* C38: the session id with which the joiner enters the game (the argument
\* of onGameReady) is the session id embedded in the handshake artifact whose
\* session-open action the joiner just finalized.
C38_EntersArtifactSession ==
    JoinerEntered =>
        /\ joiner.readySid = parseAuthEntry(joiner.xdr).sessionId
        /\ ui[2].sessionId = parseAuthEntry(joiner.xdr).sessionId

\* the same for the lobby that reads the session id from the artifact
C38_SecondLobbyEnters ==
    variant = "PoisonGameLobby" => C38_EntersArtifactSession

\* the joiner typed another session id than the artifact's and entered the
\* game with the typed one, while the ledger opened the artifact's session
C38_EnteredTypedSession ==
    /\ variant = "GameLobby"
    /\ JoinerEntered
    /\ joiner.readySid # joiner.xdr.session_id
    /\ ui[2].screen = "game"
    /\ ui[2].sessionId = joiner.readySid
    /\ games[joiner.xdr.session_id].exists
    /\ ~games[joiner.readySid].exists

\* the joiner of the second lobby entered the session of the artifact
C38_EnteredArtifactSession ==
    /\ variant = "PoisonGameLobby"
    /\ JoinerEntered
    /\ ui[2].screen = "game"
    /\ ui[2].sessionId = joiner.xdr.session_id
    /\ games[joiner.xdr.session_id].exists

\* a step in which a timeout callback ran and cleared the interval pollRef held
TimeoutClearsInterval ==
    /\ timers'.timeouts # timers.timeouts
    /\ timers.pollRef # NoInterval
    /\ timers'.pollRef = NoInterval

\* C39: the 10 minute timeout armed by one startPolling call stops only the
\* poll loop of that call: an interval is cleared by a timeout, and a timeout
\* is reported, no sooner than 10 minutes after that interval was set, also
\* after Start Over and a new Create.
C39_TimeoutStopsOwnWait ==
    [][TimeoutClearsInterval => timers.pollRef.start + PollTimeoutMs <= timers.now]_vars

\* the wait started after Start Over shows the timeout error although its own
\* timer, armed when it started, is still to come
C39_NewWaitCutShort ==
    /\ variant = "PoisonGameLobby"
    /\ creator.pc = "timedOut"
    /\ timers.error = "WaitTimeout"
    /\ timers.pollRef = NoInterval
    /\ timers.mounted
    /\ \E d \in timers.timeouts : d > timers.now /\ d < timers.now + PollTimeoutMs

\* a single wait, never started over, ended by its own timeout
C39_OwnTimeout ==
    /\ variant = "PoisonGameLobby"
    /\ creator.pc = "timedOut"
    /\ timers.timeouts = {}
    /\ timers.now >= PollTimeoutMs
====
